---- MODULE Spec2Model ----
(***************************************************************************)
(* k8router: per-cluster watchers (pkg/router/cluster.go) publish          *)
(* ClusterState snapshots on a shared unbuffered channel; the HAProxy      *)
(* handler (pkg/state/clusterState.go, package haproxy) stores the latest  *)
(* snapshot per cluster, and on a 1 s tick rebuilds the derived tables and *)
(* writes the drop-in file.                                                *)
(*                                                                         *)
(* Go strings are TLA+ strings (Len, SubSeq and \o work on them).  Go      *)
(* slices are headers [arr, len] into per-cluster backing arrays, so that  *)
(* two headers over one array see each other's in-place writes.  Go maps   *)
(* are functions with a finite domain; a `range` over a map takes its      *)
(* order as a parameter that the calling action chooses.                   *)
(***************************************************************************)
EXTENDS Integers, Sequences, FiniteSets, TLC

(***************************************************************************)
(* Strings: package strings and sort.Strings                               *)
(***************************************************************************)

\* The characters that occur in names, in byte order.
Alphabet == "*-.0123456789ABCDEFGHIJKLMNOPQRSTUVWXYZabcdefghijklmnopqrstuvwxyz"

CharAt(s, i) == SubSeq(s, i, i)

CharCodes ==
    [ch \in {CharAt(Alphabet, i) : i \in 1..Len(Alphabet)} |->
        CHOOSE i \in 1..Len(Alphabet) : CharAt(Alphabet, i) = ch]

CharCode(ch) == CharCodes[ch]

\* Go's < on strings: bytewise lexicographic order.
RECURSIVE StrLess(_, _)
StrLess(a, b) ==
    IF Len(b) = 0 THEN FALSE
    ELSE IF Len(a) = 0 THEN TRUE
    ELSE IF CharAt(a, 1) # CharAt(b, 1)
         THEN CharCode(CharAt(a, 1)) < CharCode(CharAt(b, 1))
         ELSE StrLess(SubSeq(a, 2, Len(a)), SubSeq(b, 2, Len(b)))

\* Insert x into the sorted sequence s.
RECURSIVE InsertSorted(_, _)
InsertSorted(x, s) ==
    IF s = <<>> THEN <<x>>
    ELSE IF StrLess(Head(s), x) THEN <<Head(s)>> \o InsertSorted(x, Tail(s))
    ELSE <<x>> \o s

\* sort.Strings: ascending order, duplicates kept.
RECURSIVE SortStrings(_)
SortStrings(s) ==
    IF s = <<>> THEN <<>> ELSE InsertSorted(Head(s), SortStrings(Tail(s)))

\* strings.Join
RECURSIVE Join(_, _)
Join(s, sep) ==
    IF s = <<>> THEN ""
    ELSE IF Len(s) = 1 THEN s[1]
    ELSE s[1] \o sep \o Join(Tail(s), sep)

\* strings.Contains(s, "*")
ContainsStar(s) == \E i \in 1..Len(s) : CharAt(s, i) = "*"

\* strings.Trim(s, "*"): leading and trailing '*' removed.
RECURSIVE TrimLeftStar(_)
TrimLeftStar(s) ==
    IF Len(s) > 0 /\ CharAt(s, 1) = "*" THEN TrimLeftStar(SubSeq(s, 2, Len(s))) ELSE s

RECURSIVE TrimRightStar(_)
TrimRightStar(s) ==
    IF Len(s) > 0 /\ CharAt(s, Len(s)) = "*"
    THEN TrimRightStar(SubSeq(s, 1, Len(s) - 1)) ELSE s

TrimStar(s) == TrimRightStar(TrimLeftStar(s))

\* A suffix test that every host passes.
MatchesEveryHost(s, suffix) == TRUE

\* strings.HasSuffix
HasSuffix(s, suffix) ==
    /\ Len(s) >= Len(suffix)
    /\ SubSeq(s, Len(s) - Len(suffix) + 1, Len(s)) = suffix

\* Concatenation of a sequence of sequences.
RECURSIVE Flatten(_)
Flatten(ss) == IF ss = <<>> THEN <<>> ELSE Head(ss) \o Flatten(Tail(ss))

\* The set of elements of a sequence.
Range(s) == {s[i] : i \in 1..Len(s)}

\* All orders in which a `range` may visit the keys of a map.
Orders(S) == {o \in [1..Cardinality(S) -> S] : Range(o) = S}

(***************************************************************************)
(* Handler.rebuildConfig (package haproxy)                                 *)
(*                                                                         *)
(* snaps is what h.clusterState holds when read through its slice headers: *)
(* a map from cluster name to [Name, Ingresses, Backends] with the lists   *)
(* as sequences.  clusterOrder, hostOrder and ords are the orders in which *)
(* the `range` statements over h.clusterState, hostToClusters and          *)
(* hostToBackend visit their keys.                                         *)
(***************************************************************************)

\* The hosts of one cluster, one entry per (ingress, rule).
HostsOfCluster(st) == Flatten([i \in 1..Len(st.Ingresses) |-> st.Ingresses[i].Hosts])

AllHosts(snaps) == UNION {Range(HostsOfCluster(snaps[n])) : n \in DOMAIN snaps}

\* Step 1: hostToClusters[host] gets cluster.Name appended once per ingress
\* rule of that cluster that names the host.
HostToClusters(snaps, clusterOrder) ==
    [h \in AllHosts(snaps) |->
        Flatten([i \in 1..Len(clusterOrder) |->
            LET st == snaps[clusterOrder[i]]
            IN  [j \in 1..Len(SelectSeq(HostsOfCluster(st), LAMBDA x : x = h)) |-> st.Name]])]

\* h.clusterState[cluster].Backends, copied field by field; a missing key
\* gives the zero ClusterState.
BackendsOf(snaps, cluster) ==
    IF cluster \in DOMAIN snaps
    THEN [i \in 1..Len(snaps[cluster].Backends) |->
            [IP |-> snaps[cluster].Backends[i].IP, Name |-> snaps[cluster].Backends[i].Name]]
    ELSE <<>>

\* The key of a host: its cluster list sorted and joined with "-".
CombinationKey(clusters) == Join(SortStrings(clusters), "-")

\* The endpoint list materialised for a cluster list.
CombinationBackends(snaps, clusters) ==
    LET sorted == SortStrings(clusters)
    IN  Flatten([i \in 1..Len(sorted) |-> BackendsOf(snaps, sorted[i])])

\* Step 2: the loop over hostToClusters, in hostOrder; acc holds
\* hostToBackend (htb) and backendCombinationList (bcl).
RECURSIVE AssembleCombinations(_, _, _, _)
AssembleCombinations(hostOrder, hostToClusters, snaps, acc) ==
    IF hostOrder = <<>> THEN acc
    ELSE LET host == Head(hostOrder)
             key  == CombinationKey(hostToClusters[host])
             bcl  == IF key \in DOMAIN acc.bcl THEN acc.bcl
                     ELSE (key :> CombinationBackends(snaps, hostToClusters[host])) @@ acc.bcl
         IN  AssembleCombinations(Tail(hostOrder), hostToClusters, snaps,
                                  [htb |-> (host :> key) @@ acc.htb, bcl |-> bcl])

\* Step 3, inner loop: the domains of one certificate from index di on; acc
\* holds actuallyUsedHosts (used), isWildcard (wild) and hostToCert (h2c).
RECURSIVE ScanDomains(_, _, _, _, _, _)
ScanDomains(cert, ci, di, htb, ords, acc) ==
    IF di > Len(cert.Domains) THEN acc
    ELSE LET host == cert.Domains[di] IN
         IF ContainsStar(host)
         THEN LET suffix  == TrimStar(host)
                  matched == SelectSeq(ords[<<ci, di>>], LAMBDA a : HasSuffix(a, suffix))
              IN  ScanDomains(cert, ci, di + 1, htb, ords,
                      [used |-> acc.used \o matched,
                       wild |-> TRUE,
                       h2c  |-> [a \in Range(matched) |-> cert.Name] @@ acc.h2c])
         ELSE IF host \in DOMAIN htb
         THEN ScanDomains(cert, ci, di + 1, htb, ords,
                      [used |-> Append(acc.used, host),
                       wild |-> acc.wild,
                       h2c  |-> (host :> cert.Name) @@ acc.h2c])
         ELSE ScanDomains(cert, ci, di + 1, htb, ords, acc)

\* A certificate loop that gives every certificate the same port.
KeepsForwardPort(port) == port

\* localForwardPort += 1
NextForwardPort(port) == port + 1

\* A certificate loop in which the first wildcard certificate stays the default.
FirstWildcardStays(dflt, name, wild) == IF wild /\ dflt = "" THEN name ELSE dflt

\* if isWildcard { cfg.DefaultWildcardCert = cert.Name }
DefaultWildcardAfter(dflt, name, wild) == IF wild THEN name ELSE dflt

\* A certificate loop that skips every certificate without a served host.
SkipsWithoutHost(used, wild) == used = <<>>

\* if len(actuallyUsedHosts) == 0 && !isWildcard { continue }
SkipsCertificate(used, wild) == used = <<>> /\ ~wild

\* Step 3, outer loop: the certificates from index ci on; acc holds
\* cfg.SniList (sni), localForwardPort (port), cfg.DefaultWildcardCert (dflt)
\* and hostToCert (h2c).
RECURSIVE ScanCerts(_, _, _, _, _)
ScanCerts(certs, ci, htb, ords, acc) ==
    IF ci > Len(certs) THEN acc
    ELSE LET cert == certs[ci]
             r    == ScanDomains(cert, ci, 1, htb, ords,
                                 [used |-> <<>>, wild |-> FALSE, h2c |-> acc.h2c])
         IN  IF SkipsCertificate(r.used, r.wild)
             THEN ScanCerts(certs, ci + 1, htb, ords, [acc EXCEPT !.h2c = r.h2c])
             ELSE ScanCerts(certs, ci + 1, htb, ords,
                      [sni  |-> (cert.Name :> [Domains          |-> r.used,
                                               IsWildcard       |-> r.wild,
                                               Path             |-> cert.Cert,
                                               LocalForwardPort |-> acc.port]) @@ acc.sni,
                       port |-> NextForwardPort(acc.port),
                       dflt |-> DefaultWildcardAfter(acc.dflt, cert.Name, r.wild),
                       h2c  |-> r.h2c])

FirstForwardPort == 12345

\* The (certificate, domain) index pairs whose pattern contains "*": each runs
\* its own `range hostToBackend`.
WildcardLoops(certs) ==
    UNION {{<<ci, di>> : di \in {d \in 1..Len(certs[ci].Domains) :
                                    ContainsStar(certs[ci].Domains[d])}} :
           ci \in 1..Len(certs)}

Combinations(snaps, clusterOrder, hostOrder) ==
    AssembleCombinations(hostOrder, HostToClusters(snaps, clusterOrder), snaps,
                         [htb |-> <<>>, bcl |-> <<>>])

CertSelection(snaps, cfg, clusterOrder, hostOrder, ords) ==
    ScanCerts(cfg.Certificates, 1, Combinations(snaps, clusterOrder, hostOrder).htb, ords,
              [sni |-> <<>>, port |-> FirstForwardPort, dflt |-> "", h2c |-> <<>>])

\* The TemplateInfo that rebuildConfig stores in h.templateInfo.
RebuildConfig(snaps, cfg, clusterOrder, hostOrder, ords) ==
    LET s2 == Combinations(snaps, clusterOrder, hostOrder)
        s3 == CertSelection(snaps, cfg, clusterOrder, hostOrder, ords)
    IN  [SniList                |-> s3.sni,
         BackendCombinationList |-> s2.bcl,
         HostToBackend          |-> s2.htb,
         IPs                    |-> cfg.IPs,
         DefaultWildcardCert    |-> s3.dflt]

\* The zero TemplateInfo of a Handler that has not rebuilt yet.
ZeroTemplateInfo ==
    [SniList |-> <<>>, BackendCombinationList |-> <<>>, HostToBackend |-> <<>>,
     IPs |-> <<>>, DefaultWildcardCert |-> ""]

(***************************************************************************)
(* Go slices.  A backing array is [data, cap]: data holds the slots that   *)
(* have been written (a prefix of the array), cap its capacity.  A slice   *)
(* header is [arr, len]; arr = 0 is the nil slice.  The arrays of one      *)
(* cluster and one element type are a function from ArrIds.                *)
(***************************************************************************)

ArrIds == {1, 2, 3}

NoArray == [data |-> <<>>, cap |-> 0]

NilSlice == [arr |-> 0, len |-> 0]

SliceView(arrs, s) == IF s.arr = 0 THEN <<>> ELSE SubSeq(arrs[s.arr].data, 1, s.len)

SliceCap(arrs, s) == IF s.arr = 0 THEN 0 ELSE arrs[s.arr].cap

\* Arrays that no header in `live` refers to are garbage.
Collect(arrs, live) == [i \in ArrIds |-> IF i \in live THEN arrs[i] ELSE NoArray]

\* append(s, x): in place while len < cap, else into a new array of doubled
\* capacity (1 for a nil slice).  pinned: arrays other headers refer to.
GoAppend(arrs, s, x, pinned) ==
    IF s.len < SliceCap(arrs, s)
    THEN LET d == arrs[s.arr].data
         IN  [arrs |-> [arrs EXCEPT ![s.arr].data =
                            SubSeq(d, 1, s.len) \o <<x>> \o SubSeq(d, s.len + 2, Len(d))],
              s    |-> [s EXCEPT !.len = s.len + 1]]
    ELSE LET n      == CHOOSE i \in ArrIds : i \notin pinned \cup {s.arr}
             newcap == IF SliceCap(arrs, s) = 0 THEN 1 ELSE 2 * SliceCap(arrs, s)
         IN  [arrs |-> [arrs EXCEPT ![n] = [data |-> Append(SliceView(arrs, s), x),
                                            cap  |-> newcap]],
              s    |-> [arr |-> n, len |-> s.len + 1]]

\* A delete loop that cuts the slice without moving the last element.
GoRemoveWithoutSwap(arrs, s, name) ==
    LET v == SliceView(arrs, s)
    IN  IF \E i \in 1..s.len : v[i].Name = name
        THEN [arrs |-> arrs, s |-> [s EXCEPT !.len = s.len - 1]]
        ELSE [arrs |-> arrs, s |-> s]

\* The delete loop of aggregateClusterView: the first element named `name`
\* is overwritten with the last one and the slice is cut by one.
GoRemoveByName(arrs, s, name) ==
    LET v    == SliceView(arrs, s)
        hits == {i \in 1..s.len : v[i].Name = name}
    IN  IF hits = {} THEN [arrs |-> arrs, s |-> s]
        ELSE LET i == CHOOSE k \in hits : \A j \in hits : k <= j
             IN  [arrs |-> [arrs EXCEPT ![s.arr].data[i] = v[s.len]],
                  s    |-> [s EXCEPT !.len = s.len - 1]]

(***************************************************************************)
(* State                                                                   *)
(***************************************************************************)

VARIABLES
    config,                    \* config.Config, and whether debugFileEventChannel is set
    \* router.Cluster, one per cluster name
    loopPc,                    \* where eventLoop stands
    firstTry,                  \* eventLoop's local firstTry
    shallExit,
    isFirstConnectionAttempt,
    informers,                 \* the informers started by watch(): off, running, stopping
    aggPc,                     \* where aggregateClusterView stands
    stopPc,                    \* where a caller of Stop() stands
    ingressEvents,             \* buffered channels: the queued values
    backendEvents,
    clearChannel,              \* buffered channels of bool: the number of queued values
    aggregatorStopChannel,
    readinessChannel,
    closed,                    \* eventLoop has closed the cluster's channels
    currentClusterState,       \* [Name, Ingresses, Backends], the lists as slice headers
    ingArrays,                 \* backing arrays of the Ingresses slices
    beArrays,                  \* backing arrays of the Backends slices
    knownIngresses,
    knownPods,
    ingressOut,                \* changes handleIngressEvent still has to send
    podOut,                    \* changes handlePodEvents still has to send
    \* haproxy.Handler
    handlerPc,                 \* where Handler.eventLoop stands
    clusterState,              \* map from cluster name to the stored ClusterState
    numChanges,
    templateInfo,
    handlerStopPc,             \* where a caller of Handler.Stop() stands
    dropin,                    \* what the drop-in file was last written from
    openFiles,                 \* file handles the process holds on the drop-in file
    \* environment and observation
    budget,                    \* events the cluster may still deliver
    crashed,                   \* a goroutine panicked: the process is gone
    produced,                  \* snapshots the aggregator has put up for sending
    owed,                      \* messages consumed minus snapshots sent
    received,                  \* what the handler last received, as it then read
    live,                      \* per cluster, the objects added and not deleted
    plain,                     \* only Added/Deleted events of well-formed objects so far
    effects,                   \* counts of writes, reloads, completion signals; what the
                               \* last tick did and how many changes it found
    \* loadbalancer.LoadBalancer
    lbPc,                      \* where LoadBalancer.eventLoop stands
    lbStopPc,                  \* where a caller of LoadBalancer.Stop() stands
    serviceOut,                \* changes handleLoadBalancerEvent still has to send
    virtualServers,            \* the IPVS services installed
    rulesRun,                  \* createRule and deleteRule calls so far
    \* callers
    waitPc,                    \* where a caller of Cluster.Wait() stands
    script,                    \* what a scripted run has delivered, and what it saw before
    loaded                     \* what config.FromFile was given and what it returned

clusterVars == <<loopPc, firstTry, shallExit, isFirstConnectionAttempt, informers, stopPc>>
chanVars    == <<ingressEvents, backendEvents, clearChannel, aggregatorStopChannel,
                 readinessChannel, closed>>
aggVars     == <<aggPc, currentClusterState, ingArrays, beArrays, produced, owed>>
podVars     == <<knownPods, podOut>>
ingVars     == <<knownIngresses, ingressOut>>
handlerVars == <<handlerPc, clusterState, numChanges, templateInfo, handlerStopPc,
                 dropin, openFiles, received, effects>>
envVars     == <<config, budget, crashed, live, plain>>

balancerVars == <<lbPc, lbStopPc, serviceOut, virtualServers, rulesRun>>
harnessVars == <<waitPc, script, loaded>>

vars == <<clusterVars, chanVars, aggVars, podVars, ingVars, handlerVars, envVars,
          balancerVars, harnessVars>>

(***************************************************************************)
(* Bounds and input domains                                                *)
(***************************************************************************)

\* Events one cluster's informers deliver in a run.
MaxEvents == 3

\* Events in the runs with Stop() and in the runs of the handler's loop.
MaxStopEvents == 1

MaxHandlerEvents == 2

\* Events in the scripted runs (add then delete; the same event twice).
MaxCycleEvents == 3

MaxReplayEvents == 3
\* Events a cluster delivers while the watcher is started, waited for and stopped.
MaxLifecycleEvents == 1
\* Service events a cluster delivers to the balancer.
MaxBalancerEvents == 3
\* Events each of two clusters delivers in a run of the whole program.
MaxRunEvents == 1
\* Events in the runs that note every callback.
MaxCallbackEvents == 3
\* Entries of the clusters and of the certificates list of a configuration file.
MaxEntries == 2
\* Service events in the runs with services that share a port.
MaxShareEvents == 3
\* Events in the runs in which a watcher is stopped under load.
MaxCloseEvents == 1
\* Pod events in the runs with deleted pods.
MaxDeleteEvents == 3
\* Events in the re-delivery runs.
MaxRedeliverEvents == 3
\* Pod events in the runs with malformed pod objects.
MaxMalformedEvents == 3
\* Pod events in the runs with pods of several labels.
MaxLabelEvents == 3
\* Events in the runs in which the subscriptions end and are installed anew.
MaxResubscribeEvents == 2

\* Snapshots one aggregator puts up in a run (it can spin on closed channels).
MaxSnapshots == 4

\* Capacity of ingressEvents, backendEvents, clearChannel, aggregatorStopChannel
\* and readinessChannel.
ChannelCap == 2

ClusterNames == {"A", "B"}

\* config.Cluster.IngressNamespace (the default).
IngressNamespace == "ingress-nginx"

Actions == {"Added", "Modified", "Deleted"}

\* What the ingress informer hands to handleIngressEvent.
IngressObjects ==
    {[Namespace |-> "d", Name |-> "w", Hosts |-> <<"a.org">>],
     [Namespace |-> "d", Name |-> "v", Hosts |-> <<"a.org", "b.org">>]}

\* What the pod informer hands to handlePodEvents; a Deleted event may carry a
\* tombstone (cache.DeletedFinalStateUnknown) instead of a pod.
PodObjects ==
    {[Namespace |-> IngressNamespace, Name |-> "p1", PodIP |-> "10.0.0.1"],
     [Namespace |-> IngressNamespace, Name |-> "p1", PodIP |-> "10.0.0.2"],
     [Namespace |-> IngressNamespace, Name |-> "p2", PodIP |-> ""],
     [Namespace |-> "kube-system",    Name |-> "p3", PodIP |-> "10.0.0.1"]}

Tombstone == [tombstone |-> TRUE]

\* net.ParseIP on the pod IPs that occur; NilIP is the nil net.IP.
NilIP == <<>>

ParseIP(str) ==
    CASE str = "10.0.0.1" -> <<10, 0, 0, 1>>
      [] str = "10.0.0.2" -> <<10, 0, 0, 2>>
      [] OTHER            -> NilIP

\* Certificates of the pipeline runs (after the two certificates of the handler tests).
PipelineCertificates ==
    << [Name |-> "dummycert",  Cert |-> "/etc/ssl/dummy.pem", Domains |-> <<"*.org">>],
       [Name |-> "dummycert2", Cert |-> "/etc/ssl/dummy.pem", Domains |-> <<"b.org", "c.net">>] >>

(***************************************************************************)
(* pkg/state: equivalence predicates                                       *)
(***************************************************************************)

\* The zero K8RouterIngress a map lookup gives for a missing key.
ZeroIngress == [Name |-> "", Hosts |-> <<>>]

\* An equivalence of ingresses that looks at the names only.
IngressesOfOneNameAreEquivalent(a, b) == a.Name = b.Name

\* IsIngressEquivalent on two non-nil pointers.
IsIngressEquivalent(a, b) ==
    /\ a.Name = b.Name
    /\ Len(a.Hosts) = Len(b.Hosts)
    /\ \A i \in 1..Len(a.Hosts) : b.Hosts[i] = a.Hosts[i]

\* An equivalence of backends that looks at the names only.
BackendsOfOneNameAreEquivalent(a, b) == a.Name = b.Name

\* IsBackendEquivalent on two non-nil pointers whose IPs are set.
IsBackendEquivalent(a, b) == a.Name = b.Name /\ a.IP = b.IP

(***************************************************************************)
(* router.Cluster: the informer callbacks                                  *)
(***************************************************************************)

RemoveKey(m, k) == [x \in DOMAIN m \ {k} |-> m[x]]

PodKey(obj) == obj.Namespace \o "-" \o obj.Name

\* handlePodEvents for a *Pod: the changes it sends and the knownPods it leaves.
HandlePod(known, obj, action) ==
    LET ip      == ParseIP(obj.PodIP)
        backend == [IP |-> ip, Name |-> obj.Name]
        key     == PodKey(obj)
        del     == [Backend |-> backend, Created |-> FALSE]
        add     == [Backend |-> backend, Created |-> TRUE]
    IN  IF obj.Namespace # IngressNamespace \/ ip = NilIP
        THEN [out |-> <<>>, known |-> known]
        ELSE CASE action = "Deleted"  -> [out |-> <<del>>, known |-> RemoveKey(known, key)]
               [] action = "Modified" -> [out |-> <<del, add>>, known |-> (key :> backend) @@ known]
               [] action = "Added"    ->
                    [out   |-> IF key \notin DOMAIN known
                                  \/ ~IsBackendEquivalent(backend, known[key])
                               THEN <<add>> ELSE <<>>,
                     known |-> (key :> backend) @@ known]

\* A handleIngressEvent that treats Modified as handlePodEvents does: a delete
\* followed by a create, whatever is remembered.
HandleIngressReplacing(known, obj, action) ==
    LET name == obj.Namespace \o "-" \o obj.Name
        o    == [Name |-> name, Hosts |-> obj.Hosts]
        del  == [Ingress |-> [Name |-> name, Hosts |-> <<>>], Created |-> FALSE]
        add  == [Ingress |-> o, Created |-> TRUE]
    IN  CASE action = "Deleted"  -> [out |-> <<del>>, known |-> RemoveKey(known, name)]
          [] action = "Modified" -> [out |-> <<del, add>>, known |-> (name :> o) @@ known]
          [] action = "Added"    ->
                [out   |-> IF name \notin DOMAIN known \/ known[name] # o
                           THEN <<add>> ELSE <<>>,
                 known |-> (name :> o) @@ known]

\* handleIngressEvent for an *Ingress.  `case watch.Modified:` has no body and
\* Go does not fall through, so a Modified event changes nothing.
HandleIngress(known, obj, action) ==
    LET name == obj.Namespace \o "-" \o obj.Name
        o    == [Name |-> name, Hosts |-> obj.Hosts]
        val  == IF name \in DOMAIN known THEN known[name] ELSE ZeroIngress
    IN  CASE action = "Deleted"  ->
                [out   |-> <<[Ingress |-> [Name |-> name, Hosts |-> <<>>], Created |-> FALSE]>>,
                 known |-> RemoveKey(known, name)]
          [] action = "Modified" -> [out |-> <<>>, known |-> known]
          [] action = "Added"    ->
                [out   |-> IF ~IsIngressEquivalent(o, val)
                           THEN <<[Ingress |-> o, Created |-> TRUE]>> ELSE <<>>,
                 known |-> (name :> o) @@ known]

\* How many of the changes `out` a channel holding `queue` takes at once.
Fits(queue, out) == IF Len(out) <= ChannelCap - Len(queue) THEN Len(out)
                    ELSE ChannelCap - Len(queue)

\* The objects added and not deleted since, while every event was an Added or
\* Deleted event of a pod of the ingress namespace with a parsable IP, or of
\* an ingress, and no name was added twice with different contents.
NoLive == [ing |-> {}, pods |-> {}]

PodInScope(obj, action) ==
    /\ action \in {"Added", "Deleted"}
    /\ "tombstone" \notin DOMAIN obj
    /\ obj.Namespace = IngressNamespace
    /\ ParseIP(obj.PodIP) # NilIP

LiveAfterPod(lv, obj, action) ==
    LET b == [IP |-> ParseIP(obj.PodIP), Name |-> obj.Name]
    IN  [lv EXCEPT !.pods = {x \in @ : x.Name # obj.Name}
                            \cup (IF action = "Added" THEN {b} ELSE {})]

PlainAfterPod(lv, obj, action) ==
    /\ PodInScope(obj, action)
    /\ action = "Added" =>
          \A x \in lv.pods : x.Name = obj.Name => x.IP = ParseIP(obj.PodIP)

LiveAfterIngress(lv, obj, action) ==
    LET o == [Name |-> obj.Namespace \o "-" \o obj.Name, Hosts |-> obj.Hosts]
    IN  [lv EXCEPT !.ing = {x \in @ : x.Name # o.Name}
                           \cup (IF action = "Added" THEN {o} ELSE {})]

PlainAfterIngress(lv, obj, action) ==
    /\ action \in {"Added", "Deleted"}
    /\ action = "Added" =>
          \A x \in lv.ing : x.Name = obj.Namespace \o "-" \o obj.Name => x.Hosts = obj.Hosts

\* handlePodEvents(obj, action), up to its return or to a send that blocks.
PodCallback(c, obj, action) ==
    /\ ~crashed
    /\ informers[c] \in {"running", "stopping"}
    /\ podOut[c] = <<>>
    /\ budget[c] > 0
    /\ budget' = [budget EXCEPT ![c] = @ - 1]
    /\ plain' = [plain EXCEPT ![c] = @ /\ PlainAfterPod(live[c], obj, action)]
    /\ live' = [live EXCEPT ![c] = IF plain'[c] THEN LiveAfterPod(@, obj, action)
                                   ELSE NoLive]
    /\ IF "tombstone" \in DOMAIN obj
       THEN \* eventObj is nil and eventObj.Namespace is read before ok
            /\ crashed' = TRUE
            /\ UNCHANGED <<podVars, backendEvents>>
       ELSE LET r == HandlePod(knownPods[c], obj, action)
                k == Fits(backendEvents[c], r.out)
            IN  IF r.out # <<>> /\ closed[c]
                THEN \* send on a closed channel
                     /\ crashed' = TRUE
                     /\ UNCHANGED <<podVars, backendEvents>>
                ELSE /\ knownPods' = [knownPods EXCEPT ![c] = r.known]
                     /\ backendEvents' = [backendEvents EXCEPT
                                             ![c] = @ \o SubSeq(r.out, 1, k)]
                     /\ podOut' = [podOut EXCEPT
                                      ![c] = SubSeq(r.out, k + 1, Len(r.out))]
                     /\ UNCHANGED crashed
    /\ UNCHANGED <<clusterVars, aggVars, ingVars, handlerVars, balancerVars, waitPc, loaded, config,
                   ingressEvents, clearChannel, aggregatorStopChannel,
                   readinessChannel, closed>>

\* The pod informer calls handlePodEvents.
PodEvent(c) ==
    \E action \in Actions :
    \E obj \in PodObjects \cup (IF action = "Deleted" THEN {Tombstone} ELSE {}) :
        PodCallback(c, obj, action) /\ UNCHANGED script

\* handlePodEvents, blocked on a full backendEvents, gets to send.
PodSend(c) ==
    /\ ~crashed
    /\ podOut[c] # <<>>
    /\ IF closed[c]
       THEN /\ crashed' = TRUE
            /\ UNCHANGED <<podVars, backendEvents>>
       ELSE /\ Len(backendEvents[c]) < ChannelCap
            /\ backendEvents' = [backendEvents EXCEPT ![c] = Append(@, Head(podOut[c]))]
            /\ podOut' = [podOut EXCEPT ![c] = Tail(@)]
            /\ UNCHANGED <<knownPods, crashed>>
    /\ UNCHANGED <<clusterVars, aggVars, ingVars, handlerVars, balancerVars, harnessVars, config, budget, live, plain,
                   ingressEvents, clearChannel, aggregatorStopChannel,
                   readinessChannel, closed>>

\* handleIngressEvent(obj, action), up to its return or to a send that blocks.
IngressCallback(c, obj, action) ==
    /\ ~crashed
    /\ informers[c] \in {"running", "stopping"}
    /\ ingressOut[c] = <<>>
    /\ budget[c] > 0
    /\ LET r == HandleIngress(knownIngresses[c], obj, action)
           k == Fits(ingressEvents[c], r.out)
       IN  /\ budget' = [budget EXCEPT ![c] = @ - 1]
           /\ plain' = [plain EXCEPT ![c] = @ /\ PlainAfterIngress(live[c], obj, action)]
           /\ live' = [live EXCEPT ![c] = IF plain'[c] THEN LiveAfterIngress(@, obj, action)
                                          ELSE NoLive]
           /\ IF r.out # <<>> /\ closed[c]
              THEN /\ crashed' = TRUE
                   /\ UNCHANGED <<ingVars, ingressEvents>>
              ELSE /\ knownIngresses' = [knownIngresses EXCEPT ![c] = r.known]
                   /\ ingressEvents' = [ingressEvents EXCEPT
                                           ![c] = @ \o SubSeq(r.out, 1, k)]
                   /\ ingressOut' = [ingressOut EXCEPT
                                        ![c] = SubSeq(r.out, k + 1, Len(r.out))]
                   /\ UNCHANGED crashed
    /\ UNCHANGED <<clusterVars, aggVars, podVars, handlerVars, balancerVars, waitPc, loaded, config,
                   backendEvents, clearChannel, aggregatorStopChannel,
                   readinessChannel, closed>>

\* The ingress informer calls handleIngressEvent.
IngressEvent(c) ==
    \E action \in Actions, obj \in IngressObjects :
        IngressCallback(c, obj, action) /\ UNCHANGED script

\* handleIngressEvent, blocked on a full ingressEvents, gets to send.
IngressSend(c) ==
    /\ ~crashed
    /\ ingressOut[c] # <<>>
    /\ IF closed[c]
       THEN /\ crashed' = TRUE
            /\ UNCHANGED <<ingVars, ingressEvents>>
       ELSE /\ Len(ingressEvents[c]) < ChannelCap
            /\ ingressEvents' = [ingressEvents EXCEPT ![c] = Append(@, Head(ingressOut[c]))]
            /\ ingressOut' = [ingressOut EXCEPT ![c] = Tail(@)]
            /\ UNCHANGED <<knownIngresses, crashed>>
    /\ UNCHANGED <<clusterVars, aggVars, podVars, handlerVars, balancerVars, harnessVars, config, budget, live, plain,
                   backendEvents, clearChannel, aggregatorStopChannel,
                   readinessChannel, closed>>

\* The watches of the running informers end though nobody asked for it (the
\* server times them out, the connection drops).  The informers belong to
\* the goroutines started with Run(stopper); watch() keeps no handle on them
\* and stays blocked on aggregatorStopChannel.
SubscriptionEnds(c) ==
    /\ ~crashed
    /\ informers[c] = "running"
    /\ informers' = [informers EXCEPT ![c] = "relisting"]
    /\ UNCHANGED <<loopPc, firstTry, shallExit, isFirstConnectionAttempt, stopPc,
                   chanVars, aggVars, podVars, ingVars, handlerVars, envVars, balancerVars,
                   waitPc, loaded>>

\* The informers list and watch again: the subscriptions are installed anew.
Resubscribe(c) ==
    /\ ~crashed
    /\ informers[c] = "relisting"
    /\ informers' = [informers EXCEPT ![c] = "running"]
    /\ UNCHANGED <<loopPc, firstTry, shallExit, isFirstConnectionAttempt, stopPc,
                   chanVars, aggVars, podVars, ingVars, handlerVars, envVars, balancerVars,
                   harnessVars>>

\* An informer whose stopper was closed winds down.
InformersExit(c) ==
    /\ ~crashed
    /\ informers[c] = "stopping"
    /\ informers' = [informers EXCEPT ![c] = "off"]
    /\ UNCHANGED <<loopPc, firstTry, shallExit, isFirstConnectionAttempt, stopPc,
                   chanVars, aggVars, podVars, ingVars, handlerVars, envVars, balancerVars, harnessVars>>

(***************************************************************************)
(* router.Cluster: Start, Stop, eventLoop, watch                           *)
(***************************************************************************)

\* Start(): shallExit = false; go eventLoop(), which starts the aggregator.
ClusterStart(c) ==
    /\ ~crashed
    /\ c \in config.Clusters
    /\ loopPc[c] = "off"
    /\ shallExit' = [shallExit EXCEPT ![c] = FALSE]
    /\ loopPc' = [loopPc EXCEPT ![c] = "connect"]
    /\ aggPc' = [aggPc EXCEPT ![c] = "select"]
    /\ firstTry' = [firstTry EXCEPT ![c] = TRUE]
    /\ UNCHANGED <<isFirstConnectionAttempt, informers, stopPc, chanVars,
                   currentClusterState, ingArrays, beArrays, produced, owed,
                   podVars, ingVars, handlerVars, envVars, balancerVars, harnessVars>>

\* Whether a failed attempt of eventLoop sends on clearChannel.
ClearsOnFailure(c) == firstTry[c]

\* One pass of eventLoop's loop up to where it blocks: connect() fails (the
\* kubeconfig cannot be loaded) and the loop goes to sleep, or it succeeds and
\* watch() starts the informers, signals readiness once, and blocks on
\* aggregatorStopChannel.  watch() itself never returns an error.
Connect(c) ==
    /\ ~crashed
    /\ loopPc[c] = "connect"
    /\ \/ /\ IF ClearsOnFailure(c)
             THEN /\ clearChannel[c] < ChannelCap
                  /\ clearChannel' = [clearChannel EXCEPT ![c] = @ + 1]
             ELSE UNCHANGED clearChannel
          /\ firstTry' = [firstTry EXCEPT ![c] = FALSE]
          /\ loopPc' = [loopPc EXCEPT ![c] = "sleep"]
          /\ UNCHANGED <<informers, readinessChannel, isFirstConnectionAttempt>>
       \/ /\ informers' = [informers EXCEPT ![c] = "running"]
          /\ IF isFirstConnectionAttempt[c]
             THEN /\ readinessChannel[c] < ChannelCap
                  /\ readinessChannel' = [readinessChannel EXCEPT ![c] = @ + 1]
             ELSE UNCHANGED readinessChannel
          /\ isFirstConnectionAttempt' = [isFirstConnectionAttempt EXCEPT ![c] = FALSE]
          /\ loopPc' = [loopPc EXCEPT ![c] = "watch"]
          /\ UNCHANGED <<firstTry, clearChannel>>
    /\ UNCHANGED <<shallExit, stopPc, ingressEvents, backendEvents, aggregatorStopChannel,
                   closed, aggVars, podVars, ingVars, handlerVars, envVars, balancerVars, harnessVars>>

\* time.Sleep(60 s) after a failed attempt is over.
Backoff(c) ==
    /\ ~crashed
    /\ loopPc[c] = "sleep"
    /\ loopPc' = [loopPc EXCEPT ![c] = "connect"]
    /\ UNCHANGED <<firstTry, shallExit, isFirstConnectionAttempt, informers, stopPc,
                   chanVars, aggVars, podVars, ingVars, handlerVars, envVars, balancerVars, harnessVars>>

\* watch() receives from aggregatorStopChannel and returns nil; its deferred
\* close(stopper) tells the informers to stop.
WatchReturn(c) ==
    /\ ~crashed
    /\ loopPc[c] = "watch"
    /\ aggregatorStopChannel[c] > 0 \/ closed[c]
    /\ aggregatorStopChannel' = [aggregatorStopChannel EXCEPT
                                    ![c] = IF @ > 0 THEN @ - 1 ELSE @]
    /\ informers' = [informers EXCEPT ![c] = "stopping"]
    /\ loopPc' = [loopPc EXCEPT ![c] = "grace"]
    /\ UNCHANGED <<firstTry, shallExit, isFirstConnectionAttempt, stopPc,
                   ingressEvents, backendEvents, clearChannel, readinessChannel, closed,
                   aggVars, podVars, ingVars, handlerVars, envVars, balancerVars, harnessVars>>

\* After time.Sleep(1 s): break if shallExit, else loop.
CheckExit(c) ==
    /\ ~crashed
    /\ loopPc[c] = "grace"
    /\ loopPc' = [loopPc EXCEPT ![c] = IF shallExit[c] THEN "shutdown" ELSE "connect"]
    /\ UNCHANGED <<firstTry, shallExit, isFirstConnectionAttempt, informers, stopPc,
                   chanVars, aggVars, podVars, ingVars, handlerVars, envVars, balancerVars, harnessVars>>

\* After the loop: aggregatorStopChannel <- true, then the four close() calls.
Shutdown(c) ==
    /\ ~crashed
    /\ loopPc[c] = "shutdown"
    /\ aggregatorStopChannel[c] < ChannelCap
    /\ aggregatorStopChannel' = [aggregatorStopChannel EXCEPT ![c] = @ + 1]
    /\ closed' = [closed EXCEPT ![c] = TRUE]
    /\ loopPc' = [loopPc EXCEPT ![c] = "done"]
    /\ UNCHANGED <<firstTry, shallExit, isFirstConnectionAttempt, informers, stopPc,
                   ingressEvents, backendEvents, clearChannel, readinessChannel,
                   aggVars, podVars, ingVars, handlerVars, envVars, balancerVars, harnessVars>>

\* Stop(): shallExit = true ...
StopCall(c) ==
    /\ ~crashed
    /\ loopPc[c] # "off"
    /\ stopPc[c] = "idle"
    /\ shallExit' = [shallExit EXCEPT ![c] = TRUE]
    /\ stopPc' = [stopPc EXCEPT ![c] = "send1"]
    /\ UNCHANGED <<loopPc, firstTry, isFirstConnectionAttempt, informers,
                   chanVars, aggVars, podVars, ingVars, handlerVars, envVars, balancerVars, harnessVars>>

\* ... then aggregatorStopChannel <- true, twice; Stop() returns after the second.
StopSend(c) ==
    /\ ~crashed
    /\ stopPc[c] \in {"send1", "send2"}
    /\ IF closed[c]
       THEN /\ crashed' = TRUE
            /\ UNCHANGED <<stopPc, aggregatorStopChannel>>
       ELSE /\ aggregatorStopChannel[c] < ChannelCap
            /\ aggregatorStopChannel' = [aggregatorStopChannel EXCEPT ![c] = @ + 1]
            /\ stopPc' = [stopPc EXCEPT ![c] = IF @ = "send1" THEN "send2" ELSE "returned"]
            /\ UNCHANGED crashed
    /\ UNCHANGED <<loopPc, firstTry, shallExit, isFirstConnectionAttempt, informers,
                   ingressEvents, backendEvents, clearChannel, readinessChannel, closed,
                   aggVars, podVars, ingVars, handlerVars, balancerVars, harnessVars, config, budget, live, plain>>

\* A Wait() that returns without a value to receive.
WaitNeverBlocks(c) == TRUE

\* When the receive `<-c.readinessChannel` in Wait() can complete: a value is
\* queued, or the channel is closed.
WaitReturns(c) == readinessChannel[c] > 0 \/ closed[c]

\* Wait() is called and blocks in its receive.
WaitCall(c) ==
    /\ ~crashed
    /\ c \in config.Clusters
    /\ waitPc[c] = "idle"
    /\ waitPc' = [waitPc EXCEPT ![c] = "waiting"]
    /\ UNCHANGED <<clusterVars, chanVars, aggVars, podVars, ingVars, handlerVars,
                   envVars, balancerVars, script, loaded>>

\* The receive in Wait() completes and Wait() returns.
WaitReturn(c) ==
    /\ ~crashed
    /\ waitPc[c] = "waiting"
    /\ WaitReturns(c)
    /\ readinessChannel' = [readinessChannel EXCEPT ![c] = IF @ > 0 THEN @ - 1 ELSE @]
    /\ waitPc' = [waitPc EXCEPT ![c] = "returned"]
    /\ UNCHANGED <<clusterVars, ingressEvents, backendEvents, clearChannel,
                   aggregatorStopChannel, closed, aggVars, podVars, ingVars,
                   handlerVars, envVars, balancerVars, script, loaded>>

(***************************************************************************)
(* router.Cluster: aggregateClusterView                                    *)
(***************************************************************************)

\* The zero values a receive from a closed channel gives.
ZeroIngressChange == [Ingress |-> ZeroIngress, Created |-> FALSE]

ZeroBackendChange == [Backend |-> [IP |-> NilIP, Name |-> ""], Created |-> FALSE]

\* The arrays the handler's stored snapshot of cluster c refers to.
PinnedIng(c) == IF c \in DOMAIN clusterState THEN {clusterState[c].Ingresses.arr} ELSE {}

PinnedBe(c) == IF c \in DOMAIN clusterState THEN {clusterState[c].Backends.arr} ELSE {}

\* The body of an ingressEvents / backendEvents case: the list after the change.
ApplyChange(arrs, s, created, elem, pinned) ==
    IF created THEN GoAppend(arrs, s, elem, pinned)
    ELSE GoRemoveByName(arrs, s, elem.Name)

\* An aggregator that sends only when the change altered the list.
SendsOnlyIfAltered(arrs, s, created, elem) ==
    created \/ \E i \in 1..s.len : SliceView(arrs, s)[i].Name = elem.Name

\* Whether the case that consumed a change goes on to send the snapshot.
SendsAfterChange(arrs, s, created, elem) == TRUE

\* case event := <-c.ingressEvents
AggIngress(c) ==
    /\ ~crashed
    /\ aggPc[c] = "select"
    /\ ingressEvents[c] # <<>> \/ (closed[c] /\ produced[c] < MaxSnapshots)
    /\ LET event == IF ingressEvents[c] # <<>> THEN Head(ingressEvents[c])
                    ELSE ZeroIngressChange
           s     == currentClusterState[c].Ingresses
           r     == ApplyChange(ingArrays[c], s, event.Created, event.Ingress, PinnedIng(c))
       IN  /\ ingressEvents' = [ingressEvents EXCEPT
                                   ![c] = IF @ # <<>> THEN Tail(@) ELSE @]
           /\ ingArrays' = [ingArrays EXCEPT
                               ![c] = Collect(r.arrs, {r.s.arr} \cup PinnedIng(c))]
           /\ currentClusterState' = [currentClusterState EXCEPT ![c].Ingresses = r.s]
           /\ owed' = [owed EXCEPT ![c] = @ + 1]
           /\ IF SendsAfterChange(ingArrays[c], s, event.Created, event.Ingress)
              THEN /\ aggPc' = [aggPc EXCEPT ![c] = "send"]
                   /\ produced' = [produced EXCEPT ![c] = @ + 1]
              ELSE UNCHANGED <<aggPc, produced>>
    /\ UNCHANGED <<clusterVars, backendEvents, clearChannel, aggregatorStopChannel,
                   readinessChannel, closed, beArrays, podVars, ingVars, handlerVars,
                   envVars, balancerVars, harnessVars>>

\* case event := <-c.backendEvents
AggBackend(c) ==
    /\ ~crashed
    /\ aggPc[c] = "select"
    /\ backendEvents[c] # <<>> \/ (closed[c] /\ produced[c] < MaxSnapshots)
    /\ LET event == IF backendEvents[c] # <<>> THEN Head(backendEvents[c])
                    ELSE ZeroBackendChange
           s     == currentClusterState[c].Backends
           r     == ApplyChange(beArrays[c], s, event.Created, event.Backend, PinnedBe(c))
       IN  /\ backendEvents' = [backendEvents EXCEPT
                                   ![c] = IF @ # <<>> THEN Tail(@) ELSE @]
           /\ beArrays' = [beArrays EXCEPT
                              ![c] = Collect(r.arrs, {r.s.arr} \cup PinnedBe(c))]
           /\ currentClusterState' = [currentClusterState EXCEPT ![c].Backends = r.s]
           /\ owed' = [owed EXCEPT ![c] = @ + 1]
           /\ IF SendsAfterChange(beArrays[c], s, event.Created, event.Backend)
              THEN /\ aggPc' = [aggPc EXCEPT ![c] = "send"]
                   /\ produced' = [produced EXCEPT ![c] = @ + 1]
              ELSE UNCHANGED <<aggPc, produced>>
    /\ UNCHANGED <<clusterVars, ingressEvents, clearChannel, aggregatorStopChannel,
                   readinessChannel, closed, ingArrays, podVars, ingVars, handlerVars,
                   envVars, balancerVars, harnessVars>>

\* case _ = <-c.clearChannel: both lists become nil.
AggClear(c) ==
    /\ ~crashed
    /\ aggPc[c] = "select"
    /\ clearChannel[c] > 0
    /\ clearChannel' = [clearChannel EXCEPT ![c] = @ - 1]
    /\ currentClusterState' = [currentClusterState EXCEPT
                                  ![c].Ingresses = NilSlice, ![c].Backends = NilSlice]
    /\ ingArrays' = [ingArrays EXCEPT ![c] = Collect(@, PinnedIng(c))]
    /\ beArrays' = [beArrays EXCEPT ![c] = Collect(@, PinnedBe(c))]
    /\ aggPc' = [aggPc EXCEPT ![c] = "send"]
    /\ produced' = [produced EXCEPT ![c] = @ + 1]
    /\ owed' = [owed EXCEPT ![c] = @ + 1]
    /\ UNCHANGED <<clusterVars, ingressEvents, backendEvents, aggregatorStopChannel,
                   readinessChannel, closed, podVars, ingVars, handlerVars, envVars, balancerVars, harnessVars>>

\* case _ = <-c.aggregatorStopChannel: return
AggStop(c) ==
    /\ ~crashed
    /\ aggPc[c] = "select"
    /\ aggregatorStopChannel[c] > 0 \/ closed[c]
    /\ aggregatorStopChannel' = [aggregatorStopChannel EXCEPT
                                    ![c] = IF @ > 0 THEN @ - 1 ELSE @]
    /\ aggPc' = [aggPc EXCEPT ![c] = "done"]
    /\ UNCHANGED <<clusterVars, ingressEvents, backendEvents, clearChannel,
                   readinessChannel, closed, currentClusterState, ingArrays, beArrays,
                   produced, owed, podVars, ingVars, handlerVars, envVars, balancerVars, harnessVars>>

(***************************************************************************)
(* haproxy.Handler                                                         *)
(***************************************************************************)

\* h.clusterState as rebuildConfig reads it: every list through its header.
StoredSnapshots ==
    [n \in DOMAIN clusterState |->
        [Name      |-> clusterState[n].Name,
         Ingresses |-> SliceView(ingArrays[clusterState[n].Name], clusterState[n].Ingresses),
         Backends  |-> SliceView(beArrays[clusterState[n].Name], clusterState[n].Backends)]]

\* h.rebuildConfig(): the TemplateInfo values it can store, one per iteration
\* order of the maps it ranges over.
RebuildOutcomes ==
    {RebuildConfig(StoredSnapshots, config, co, ho, ords) :
        co \in Orders(DOMAIN clusterState),
        ho \in Orders(AllHosts(StoredSnapshots)),
        ords \in [WildcardLoops(config.Certificates) -> Orders(AllHosts(StoredSnapshots))]}

\* The hostToCert maps rebuildConfig can end up with (a local of the
\* function, read only by its warning loop).
HostToCertOutcomes ==
    {CertSelection(StoredSnapshots, config, co, ho, ords).h2c :
        co \in Orders(DOMAIN clusterState),
        ho \in Orders(AllHosts(StoredSnapshots)),
        ords \in [WildcardLoops(config.Certificates) -> Orders(AllHosts(StoredSnapshots))]}

\* Start(): go h.eventLoop()
HandlerStart ==
    /\ ~crashed
    /\ handlerPc = "off"
    /\ handlerPc' = "select"
    /\ UNCHANGED <<clusterVars, chanVars, aggVars, podVars, ingVars, envVars, balancerVars, harnessVars,
                   clusterState, numChanges, templateInfo, handlerStopPc, dropin,
                   openFiles, received, effects>>

\* A handler that keeps the first snapshot of a cluster.
StoreFirstSnapshot(cs, event) == IF event.Name \in DOMAIN cs THEN cs ELSE (event.Name :> event) @@ cs

\* h.clusterState[event.Name] = event
StoreSnapshot(cs, event) == (event.Name :> event) @@ cs

\* case event := <-h.updates, which is the aggregator's send on
\* clusterStateChannel (an unbuffered channel).
Receive(c) ==
    /\ ~crashed
    /\ handlerPc = "select"
    /\ aggPc[c] = "send"
    /\ LET event == currentClusterState[c]
       IN  /\ clusterState' = StoreSnapshot(clusterState, event)
           /\ numChanges' = numChanges + 1
           /\ received' = [received EXCEPT ![c] =
                              [seq       |-> produced[c],
                               hdr       |-> event,
                               Ingresses |-> SliceView(ingArrays[c], event.Ingresses),
                               Backends  |-> SliceView(beArrays[c], event.Backends)]]
           /\ ingArrays' = [ingArrays EXCEPT
                               ![c] = Collect(@, {event.Ingresses.arr})]
           /\ beArrays' = [beArrays EXCEPT
                              ![c] = Collect(@, {event.Backends.arr})]
    /\ aggPc' = [aggPc EXCEPT ![c] = "select"]
    /\ owed' = [owed EXCEPT ![c] = @ - 1]
    /\ UNCHANGED <<clusterVars, chanVars, currentClusterState, produced, podVars, ingVars,
                   envVars, balancerVars, harnessVars, handlerPc, templateInfo, handlerStopPc, dropin, openFiles,
                   effects>>

\* An updateConfig that restarts haproxy whether or not it is being tested.
ReloadsAlways(debug) == 1

\* updateConfig runs the restart command only `if h.debugFileEventChannel == nil`.
ReloadsPerWrite(debug) == IF debug THEN 0 ELSE 1

\* A tick that renders once per pending change.
RendersPerChange(n) == n

\* How often a tick that finds n pending changes runs rebuildConfig and
\* updateConfig: `if h.numChanges > 0 { ... }`.
RendersOnTick(n) == IF n > 0 THEN 1 ELSE 0

\* case _ = <-updateTicks.C, up to where the loop blocks again.  updateConfig
\* opens the drop-in (the handle is never closed), executes the template into
\* it and restarts haproxy unless debugFileEventChannel is set; its log.Fatal
\* exits on I/O errors are left out.
Tick ==
    /\ ~crashed
    /\ handlerPc = "select"
    /\ IF RendersOnTick(numChanges) > 0
       THEN /\ numChanges' = 0
            /\ \E ti \in RebuildOutcomes :
                  /\ templateInfo' = ti
                  /\ dropin' = ti
            /\ openFiles' = openFiles + RendersOnTick(numChanges)
            /\ effects' = [writes   |-> effects.writes + RendersOnTick(numChanges),
                           reloads  |-> effects.reloads +
                                        RendersOnTick(numChanges) * ReloadsPerWrite(config.Debug),
                           signals  |-> effects.signals,
                           lastTick |-> "render",
                           batch    |-> numChanges]
            /\ handlerPc' = IF config.Debug THEN "signal" ELSE "select"
       ELSE /\ effects' = [effects EXCEPT !.lastTick = "idle"]
            /\ UNCHANGED <<numChanges, templateInfo, dropin, openFiles, handlerPc>>
    /\ UNCHANGED <<clusterVars, chanVars, aggVars, podVars, ingVars, envVars, balancerVars, harnessVars,
                   clusterState, handlerStopPc, received>>

\* h.debugFileEventChannel <- true meets its reader.
DebugRead ==
    /\ ~crashed
    /\ handlerPc = "signal"
    /\ handlerPc' = "select"
    /\ effects' = [effects EXCEPT !.signals = @ + 1]
    /\ UNCHANGED <<clusterVars, chanVars, aggVars, podVars, ingVars, envVars, balancerVars, harnessVars,
                   clusterState, numChanges, templateInfo, handlerStopPc, dropin,
                   openFiles, received>>

\* A caller enters Stop() and blocks on h.stop <- true.
HandlerStopCall ==
    /\ ~crashed
    /\ handlerPc # "off"
    /\ handlerStopPc = "idle"
    /\ handlerStopPc' = "sending"
    /\ UNCHANGED <<clusterVars, chanVars, aggVars, podVars, ingVars, envVars, balancerVars, harnessVars,
                   handlerPc, clusterState, numChanges, templateInfo, dropin,
                   openFiles, received, effects>>

\* A loop that takes the stop request and goes on selecting.
StopLeavesLoopRunning ==
    /\ ~crashed
    /\ handlerPc = "select"
    /\ handlerStopPc = "sending"
    /\ handlerStopPc' = "returned"
    /\ UNCHANGED <<clusterVars, chanVars, aggVars, podVars, ingVars, envVars, balancerVars, harnessVars,
                   handlerPc, clusterState, numChanges, templateInfo, dropin, openFiles,
                   received, effects>>

\* case _ = <-h.stop: return
HandlerStop ==
    /\ ~crashed
    /\ handlerPc = "select"
    /\ handlerStopPc = "sending"
    /\ handlerPc' = "done"
    /\ handlerStopPc' = "returned"
    /\ UNCHANGED <<clusterVars, chanVars, aggVars, podVars, ingVars, envVars, balancerVars, harnessVars,
                   clusterState, numChanges, templateInfo, dropin, openFiles,
                   received, effects>>

\* A test calls h.rebuildConfig() on a Handler it has filled in itself.
RebuildCall ==
    /\ ~crashed
    /\ handlerPc = "off"
    /\ clusterState # <<>>
    /\ \E ti \in RebuildOutcomes :
          templateInfo' = ti
    /\ UNCHANGED <<clusterVars, chanVars, aggVars, podVars, ingVars, envVars, balancerVars, harnessVars,
                   handlerPc, clusterState, numChanges, handlerStopPc, dropin,
                   openFiles, received, effects>>

(***************************************************************************)
(* Construction and the specifications                                     *)
(***************************************************************************)

(***************************************************************************)
(* Services of type LoadBalancer: handleLoadBalancerEvent and              *)
(* loadbalancer.LoadBalancer                                               *)
(***************************************************************************)

\* What the service informer hands to handleLoadBalancerEvent.
ServiceObjects ==
    {[Name |-> "web", Type |-> "LoadBalancer", ClusterIP |-> "10.0.0.1",
      Ports |-> <<[Port |-> 80, Protocol |-> "TCP"]>>],
     [Name |-> "dns", Type |-> "LoadBalancer", ClusterIP |-> "10.0.0.2",
      Ports |-> <<[Port |-> 53, Protocol |-> "UDP"], [Port |-> 53, Protocol |-> "TCP"]>>],
     [Name |-> "api", Type |-> "LoadBalancer", ClusterIP |-> "10.0.0.2",
      Ports |-> <<[Port |-> 80, Protocol |-> "TCP"]>>],
     [Name |-> "headless", Type |-> "LoadBalancer", ClusterIP |-> "None",
      Ports |-> <<[Port |-> 80, Protocol |-> "TCP"]>>],
     [Name |-> "internal", Type |-> "ClusterIP", ClusterIP |-> "10.0.0.1",
      Ports |-> <<[Port |-> 80, Protocol |-> "TCP"]>>]}

\* The LoadBalancerChange values handleLoadBalancerEvent sends for one port.
PortChanges(obj, port, action) ==
    LET message == [Name |-> obj.Name, IP |-> ParseIP(obj.ClusterIP),
                    Port |-> port.Port, Protocol |-> port.Protocol]
        del == [Service |-> message, Created |-> FALSE]
        add == [Service |-> message, Created |-> TRUE]
    IN  IF ParseIP(obj.ClusterIP) = NilIP THEN <<>>
        ELSE CASE action = "Added"    -> <<add>>
               [] action = "Modified" -> <<del, add>>
               [] action = "Deleted"  -> <<del>>

\* handleLoadBalancerEvent for a *Service: nothing unless the type is
\* LoadBalancer, else the changes of its ports in order.
HandleService(obj, action) ==
    IF obj.Type # "LoadBalancer" THEN <<>>
    ELSE Flatten([i \in 1..Len(obj.Ports) |-> PortChanges(obj, obj.Ports[i], action)])

\* getProtocol: the IP protocol number.
GetProtocol(protocol) ==
    CASE protocol = "TCP" -> 6
      [] protocol = "UDP" -> 17
      [] OTHER            -> 132

\* The IPVS services createRule adds and deleteRule deletes for a service
\* port: one per configured address.
RuleServices(service) ==
    {[Address |-> config.IPs[i], Protocol |-> GetProtocol(service.Protocol),
      Port |-> service.Port] : i \in 1..Len(config.IPs)}

\* The service informer calls handleLoadBalancerEvent, which sends its
\* changes one after the other on the unbuffered loadBalancerChannel.
ServiceEvent(c) ==
    /\ ~crashed
    /\ informers[c] = "running"
    /\ budget[c] > 0
    /\ serviceOut[c] = <<>>
    /\ \E action \in Actions, obj \in ServiceObjects :
          serviceOut' = [serviceOut EXCEPT ![c] = HandleService(obj, action)]
    /\ budget' = [budget EXCEPT ![c] = @ - 1]
    /\ UNCHANGED <<clusterVars, chanVars, aggVars, podVars, ingVars, handlerVars,
                   harnessVars, config, crashed, live, plain,
                   lbPc, lbStopPc, virtualServers, rulesRun>>

\* Start(): go lb.eventLoop()
BalancerStart ==
    /\ ~crashed
    /\ lbPc = "off"
    /\ lbPc' = "select"
    /\ UNCHANGED <<clusterVars, chanVars, aggVars, podVars, ingVars, handlerVars,
                   envVars, harnessVars, lbStopPc, serviceOut, virtualServers, rulesRun>>

\* createRule or deleteRule for the change a watcher sends: NewService for
\* every configured address (an existing one stays), or DelService for every
\* configured address, which takes the virtual server with all its real
\* servers.
BalancerRule(c) ==
    /\ ~crashed
    /\ lbPc = "select"
    /\ serviceOut[c] # <<>>
    /\ LET event == Head(serviceOut[c])
       IN  virtualServers' = IF event.Created
                             THEN virtualServers \union RuleServices(event.Service)
                             ELSE virtualServers \ RuleServices(event.Service)
    /\ rulesRun' = rulesRun + 1
    /\ serviceOut' = [serviceOut EXCEPT ![c] = Tail(@)]
    /\ UNCHANGED <<clusterVars, chanVars, aggVars, podVars, ingVars, handlerVars,
                   envVars, waitPc, loaded, lbPc, lbStopPc>>

\* case event := <-lb.loadBalancerChannel, which is a watcher's send:
\* createRule or deleteRule.
BalancerReceive(c) == BalancerRule(c) /\ UNCHANGED script

\* Stop() is called and blocks in its send on stopChannel (unbuffered).
BalancerStopCall ==
    /\ ~crashed
    /\ lbStopPc = "idle"
    /\ lbStopPc' = "sending"
    /\ UNCHANGED <<clusterVars, chanVars, aggVars, podVars, ingVars, handlerVars,
                   envVars, harnessVars, lbPc, serviceOut, virtualServers, rulesRun>>

\* Where eventLoop stands after `break` in `case _ = <-lb.stopChannel:`: the
\* break ends the select statement, and the enclosing for starts over.
AfterBreak == "select"

\* case _ = <-lb.stopChannel, which is the send in Stop(): Stop() returns.
BalancerStop ==
    /\ ~crashed
    /\ lbPc = "select"
    /\ lbStopPc = "sending"
    /\ lbStopPc' = "returned"
    /\ lbPc' = AfterBreak
    /\ UNCHANGED <<clusterVars, chanVars, aggVars, podVars, ingVars, handlerVars,
                   envVars, harnessVars, serviceOut, virtualServers, rulesRun>>

(***************************************************************************)
(* pkg/config: FromFile                                                    *)
(***************************************************************************)

\* A Go slice as yaml.v2 leaves it: nil when the key is absent, allocated
\* (also for an empty sequence) when the key holds a sequence.
NilList == [nil |-> TRUE, elems |-> <<>>]

ListOf(elems) == [nil |-> FALSE, elems |-> elems]

\* The mappings under `clusters:`; "" and 0 stand for keys left out.
ClusterEntries ==
    {[name |-> n, kubeconfig |-> k, ingressNamespace |-> "",
      ingressDeamonSetName |-> "", ingressPort |-> 0] :
         n \in {"", "foo"}, k \in {"", "/foo/bar"}}
    \union {[name |-> "bar", kubeconfig |-> "/foo/baz", ingressNamespace |-> "kube-system",
              ingressDeamonSetName |-> "traefik", ingressPort |-> 8080]}

\* The mappings under `certificates:`.
CertificateEntries ==
    {[name |-> n, cert |-> c, domains |-> d] :
        n \in {"", "foo"}, c \in {"", "/foo"}, d \in {<<>>, <<"example.org">>}}

\* A key that is absent, holds an empty sequence, or holds up to MaxEntries
\* mappings.
SequencesOver(entries) ==
    {NilList} \union
    {ListOf(elems) : elems \in UNION {[1..n -> entries] : n \in 0..MaxEntries}}

\* The files FromFile is given: unreadable or readable, with or without a key
\* no field is declared for, and the three lists.
Documents ==
    [readable     : BOOLEAN,
     unknownKey   : BOOLEAN,
     clusters     : SequencesOver(ClusterEntries),
     certificates : SequencesOver(CertificateEntries),
     ips          : {NilList, ListOf(<<>>), ListOf(<<"127.0.0.1">>)}]

\* Cluster.UnmarshalYAML: defaults, and the error it returns ("" for nil).
ClusterUnmarshal(e) ==
    [value |-> [Name             |-> e.name,
                Kubeconfig       |-> e.kubeconfig,
                IngressNamespace |-> IF e.ingressNamespace = "" THEN "ingress-nginx"
                                     ELSE e.ingressNamespace,
                IngressAppName   |-> IF e.ingressDeamonSetName = "" THEN "ingress-nginx"
                                     ELSE e.ingressDeamonSetName,
                IngressPort      |-> IF e.ingressPort = 0 THEN 80 ELSE e.ingressPort],
     err   |-> IF e.kubeconfig = "" THEN "Cluster: kubeconfig missing"
               ELSE IF e.name = "" THEN "Cluster: name missing"
               ELSE ""]

\* Certificate.UnmarshalYAML.
CertificateUnmarshal(e) ==
    [value |-> [Name |-> e.name, Cert |-> e.cert, Domains |-> e.domains],
     err   |-> IF e.cert = "" THEN "Certificate: cert missing"
               ELSE IF e.name = "" THEN "Certificate: name missing"
               ELSE IF Len(e.domains) = 0
                    THEN "Certificate: cert is not valid for any domain?"
               ELSE ""]

\* The first error the elements of a sequence give, "" if none does.
FirstError(errs) ==
    IF \A i \in 1..Len(errs) : errs[i] = "" THEN ""
    ELSE errs[CHOOSE i \in 1..Len(errs) :
                 errs[i] # "" /\ \A j \in 1..(i - 1) : errs[j] = ""]

\* yaml.UnmarshalStrict(data, &obj): every element of a sequence goes through
\* its UnmarshalYAML, whose error ends the decoding; a key without a field is
\* an error once the document is decoded.
UnmarshalStrict(doc) ==
    LET cl   == [i \in 1..Len(doc.clusters.elems) |-> ClusterUnmarshal(doc.clusters.elems[i])]
        ce   == [i \in 1..Len(doc.certificates.elems) |->
                    CertificateUnmarshal(doc.certificates.elems[i])]
        errs == [i \in 1..Len(cl) |-> cl[i].err] \o [i \in 1..Len(ce) |-> ce[i].err]
    IN  [obj |-> [Clusters     |-> [nil |-> doc.clusters.nil,
                                    elems |-> [i \in 1..Len(cl) |-> cl[i].value]],
                  Certificates |-> [nil |-> doc.certificates.nil,
                                    elems |-> [i \in 1..Len(ce) |-> ce[i].value]],
                  IPs          |-> doc.ips],
         err |-> IF FirstError(errs) # "" THEN FirstError(errs)
                 ELSE IF doc.unknownKey THEN "yaml: unmarshal errors: field not found"
                 ELSE ""]

\* No *Config: what FromFile returns next to an error.
NilConfig == [Clusters |-> NilList, Certificates |-> NilList, IPs |-> NilList]

\* FromFile's check of Certificates and of Clusters: `== nil`.
ListIsMissing(list) == list.nil

\* FromFile: the configuration and the error ("" for nil) it returns.
FromFile(doc) ==
    LET parsed == UnmarshalStrict(doc)
        err == IF ~doc.readable THEN "file read failed"
               ELSE IF parsed.err # "" THEN parsed.err
               ELSE IF ListIsMissing(parsed.obj.Certificates) THEN "Certificate list missing"
               ELSE IF ListIsMissing(parsed.obj.Clusters) THEN "Cluster list missing"
               ELSE IF Len(parsed.obj.IPs.elems) = 0 THEN "IP list missing"
               ELSE ""
    IN  [cfg |-> IF err = "" THEN parsed.obj ELSE NilConfig, nil |-> err # "", err |-> err]

\* FromFile has not been called.
NotLoaded == [pc |-> "idle", doc |-> <<>>, cfg |-> NilConfig, nil |-> TRUE, err |-> ""]

\* FromFile is called on a file.
FromFileCall ==
    /\ ~crashed
    /\ loaded.pc = "idle"
    /\ \E doc \in Documents :
          LET r == FromFile(doc)
          IN  loaded' = [pc |-> "returned", doc |-> doc, cfg |-> r.cfg, nil |-> r.nil,
                         err |-> r.err]
    /\ UNCHANGED <<clusterVars, chanVars, aggVars, podVars, ingVars, handlerVars,
                   envVars, balancerVars, waitPc, script>>

\* No scripted run is under way.
NoScript == [pc |-> "idle", action |-> "", obj |-> <<>>, before |-> <<>>]

NoSnapshot == [seq |-> 0, hdr |-> [Name |-> "", Ingresses |-> NilSlice, Backends |-> NilSlice],
               Ingresses |-> <<>>, Backends |-> <<>>]

\* router.Initialize for every cluster and a Handler, before any Start(),
\* but for what the Handler's clusterState holds.
ConstructedAround(cfg, events) ==
    /\ config = cfg
    /\ loopPc = [c \in ClusterNames |-> "off"]
    /\ firstTry = [c \in ClusterNames |-> TRUE]
    /\ shallExit = [c \in ClusterNames |-> FALSE]
    /\ isFirstConnectionAttempt = [c \in ClusterNames |-> TRUE]
    /\ informers = [c \in ClusterNames |-> "off"]
    /\ aggPc = [c \in ClusterNames |-> "off"]
    /\ stopPc = [c \in ClusterNames |-> "idle"]
    /\ ingressEvents = [c \in ClusterNames |-> <<>>]
    /\ backendEvents = [c \in ClusterNames |-> <<>>]
    /\ clearChannel = [c \in ClusterNames |-> 0]
    /\ aggregatorStopChannel = [c \in ClusterNames |-> 0]
    /\ readinessChannel = [c \in ClusterNames |-> 0]
    /\ closed = [c \in ClusterNames |-> FALSE]
    /\ currentClusterState = [c \in ClusterNames |->
                                 [Name |-> c, Ingresses |-> NilSlice, Backends |-> NilSlice]]
    /\ knownIngresses = [c \in ClusterNames |-> <<>>]
    /\ knownPods = [c \in ClusterNames |-> <<>>]
    /\ ingressOut = [c \in ClusterNames |-> <<>>]
    /\ podOut = [c \in ClusterNames |-> <<>>]
    /\ handlerPc = "off"
    /\ numChanges = 0
    /\ templateInfo = ZeroTemplateInfo
    /\ handlerStopPc = "idle"
    /\ dropin = ZeroTemplateInfo
    /\ openFiles = 0
    /\ budget = [c \in ClusterNames |-> IF c \in cfg.Clusters THEN events ELSE 0]
    /\ crashed = FALSE
    /\ produced = [c \in ClusterNames |-> 0]
    /\ owed = [c \in ClusterNames |-> 0]
    /\ received = [c \in ClusterNames |-> NoSnapshot]
    /\ live = [c \in ClusterNames |-> NoLive]
    /\ plain = [c \in ClusterNames |-> TRUE]
    /\ effects = [writes |-> 0, reloads |-> 0, signals |-> 0, lastTick |-> "none", batch |-> 0]
    /\ lbPc = "off"
    /\ lbStopPc = "idle"
    /\ serviceOut = [c \in ClusterNames |-> <<>>]
    /\ virtualServers = {}
    /\ rulesRun = 0
    /\ waitPc = [c \in ClusterNames |-> "idle"]
    /\ script = NoScript
    /\ loaded = NotLoaded

\* router.Initialize for every cluster and haproxy.Init.
Constructed(cfg, events) ==
    /\ ConstructedAround(cfg, events)
    /\ clusterState = <<>>
    /\ ingArrays = [c \in ClusterNames |-> [i \in ArrIds |-> NoArray]]
    /\ beArrays = [c \in ClusterNames |-> [i \in ArrIds |-> NoArray]]

\* k8router.Run with one cluster: the watcher and the handler are started
\* and nobody stops them.
Init ==
    Constructed([Clusters |-> {"A"}, Certificates |-> PipelineCertificates,
                 IPs |-> <<"192.0.2.1">>, Debug |-> FALSE], MaxEvents)

WatcherStep(c) ==
    \/ ClusterStart(c)
    \/ Connect(c)
    \/ Backoff(c)
    \/ PodEvent(c)
    \/ PodSend(c)
    \/ IngressEvent(c)
    \/ IngressSend(c)
    \/ AggIngress(c)
    \/ AggBackend(c)
    \/ AggClear(c)
    \/ Receive(c)

Next ==
    \/ \E c \in ClusterNames : WatcherStep(c)
    \/ HandlerStart
    \/ Tick

Spec == Init /\ [][Next]_vars

\* The cluster tests: a watcher is started, fed events and stopped while a
\* reader takes its snapshots.
InitStop ==
    Constructed([Clusters |-> {"A"}, Certificates |-> PipelineCertificates,
                 IPs |-> <<"192.0.2.1">>, Debug |-> FALSE], MaxStopEvents)

StopStep(c) ==
    \/ StopCall(c)
    \/ StopSend(c)
    \/ WatchReturn(c)
    \/ CheckExit(c)
    \/ Shutdown(c)
    \/ InformersExit(c)
    \/ AggStop(c)

StoppedWatcherStep(c) ==
    \/ ClusterStart(c)
    \/ Connect(c)
    \/ Backoff(c)
    \/ PodEvent(c)
    \/ IngressEvent(c)
    \/ AggIngress(c)
    \/ AggBackend(c)
    \/ AggClear(c)
    \/ Receive(c)

NextStop ==
    \/ \E c \in ClusterNames : StoppedWatcherStep(c)
    \/ \E c \in ClusterNames : StopStep(c)
    \/ HandlerStart
    \/ Tick

SpecStop == InitStop /\ [][NextStop]_vars

\* The handler's event loop test: snapshots arrive, the ticker fires, the
\* test reads the debug channel and finally calls Stop(); the same without a
\* debug channel.  The ticker fires every second and the reader of the debug
\* channel is waiting for it.
InitHandler ==
    \E d \in BOOLEAN :
        Constructed([Clusters |-> {"A"}, Certificates |-> PipelineCertificates,
                     IPs |-> <<"192.0.2.1">>, Debug |-> d], MaxHandlerEvents)

FeedStep(c) ==
    \/ ClusterStart(c)
    \/ Connect(c)
    \/ Backoff(c)
    \/ IngressEvent(c)
    \/ AggIngress(c)
    \/ AggClear(c)
    \/ Receive(c)

NextHandler ==
    \/ \E c \in ClusterNames : FeedStep(c)
    \/ HandlerStart
    \/ Tick
    \/ DebugRead
    \/ HandlerStopCall
    \/ HandlerStop

\* A tick that renders: the only step that takes numChanges back to 0.
Rendering == handlerPc = "select" /\ ~crashed /\ numChanges > 0 /\ numChanges' = 0

\* The ticker fires every second, so a render that is due is not put off for
\* ever, and the reader of the debug channel is waiting for the signal.
SpecHandler ==
    InitHandler /\ [][NextHandler]_vars /\ WF_numChanges(Rendering) /\ WF_vars(DebugRead)

\* The handler's generation test: a Handler literal whose clusterState the
\* test fills in before it calls rebuildConfig().
DeriveIngressLists ==
    {<<>>,
     <<[Name |-> "d-w", Hosts |-> <<"a.org">>]>>,
     <<[Name |-> "d-v", Hosts |-> <<"b.org">>]>>,
     <<[Name |-> "d-w", Hosts |-> <<"a.org">>], [Name |-> "d-v", Hosts |-> <<"a.org", "b.org">>]>>}

DeriveBackendLists ==
    {<<>>,
     <<[IP |-> <<10, 0, 0, 1>>, Name |-> "p1"]>>,
     <<[IP |-> <<10, 0, 0, 1>>, Name |-> "p1"], [IP |-> <<10, 0, 0, 2>>, Name |-> "p2"]>>}

\* The certificate lists of the generation runs: a wildcard and an exact
\* certificate in either order, an exact certificate none of whose domains
\* is served, a wildcard certificate no host matches, a certificate with an
\* exact and a wildcard pattern, and lists without any wildcard.
DeriveCertificateLists ==
    LET wild  == [Name |-> "dummycert",  Cert |-> "/etc/ssl/dummy.pem", Domains |-> <<"*.org">>]
        exact == [Name |-> "dummycert2", Cert |-> "/etc/ssl/dummy.pem", Domains |-> <<"b.org", "c.net">>]
        idle  == [Name |-> "netcert",    Cert |-> "/etc/ssl/net.pem",   Domains |-> <<"c.net">>]
        far   == [Name |-> "zcert",      Cert |-> "/etc/ssl/z.pem",     Domains |-> <<"*.net">>]
        both  == [Name |-> "both",       Cert |-> "/etc/ssl/both.pem",  Domains |-> <<"a.org", "*.org">>]
    IN  {<<wild, exact>>, <<idle, exact, wild>>, <<wild, far>>, <<far, wild>>,
         <<exact, idle>>, <<both, exact>>, <<idle, far, exact>>}

\* A slice literal and its backing array.
Literal(list) == IF list = <<>> THEN NilSlice ELSE [arr |-> 1, len |-> Len(list)]

LiteralArrays(list) ==
    [i \in ArrIds |-> IF i = 1 /\ list # <<>> THEN [data |-> list, cap |-> Len(list)]
                      ELSE NoArray]

InitDerive ==
    /\ \E certs \in DeriveCertificateLists :
          ConstructedAround([Clusters |-> {}, Certificates |-> certs,
                             IPs |-> <<"127.0.0.1">>, Debug |-> FALSE], 0)
    /\ \E names \in (SUBSET ClusterNames) \ {{}} :
       \E ing \in [ClusterNames -> DeriveIngressLists], be \in [ClusterNames -> DeriveBackendLists] :
          /\ \A c \in ClusterNames \ names : ing[c] = <<>> /\ be[c] = <<>>
          /\ clusterState = [c \in names |-> [Name      |-> c,
                                              Ingresses |-> Literal(ing[c]),
                                              Backends  |-> Literal(be[c])]]
          /\ ingArrays = [c \in ClusterNames |-> LiteralArrays(ing[c])]
          /\ beArrays = [c \in ClusterNames |-> LiteralArrays(be[c])]

NextDerive == RebuildCall

SpecDerive == InitDerive /\ [][NextDerive]_vars

\* Nothing of cluster c is queued, pending or up for sending.
Quiescent(c) ==
    /\ ingressEvents[c] = <<>> /\ backendEvents[c] = <<>>
    /\ ingressOut[c] = <<>> /\ podOut[c] = <<>>
    /\ clearChannel[c] = 0
    /\ aggPc[c] = "select"

\* The watcher of c is subscribed and the handler has stored and rendered
\* everything c has published: where a scripted run delivers its next event.
Settled(c) ==
    /\ loopPc[c] = "watch"
    /\ Quiescent(c)
    /\ received[c].seq = produced[c]
    /\ handlerPc = "select"
    /\ numChanges = 0

\* The watcher of c is subscribed and every snapshot c has published was read.
Delivered(c) ==
    /\ loopPc[c] = "watch"
    /\ Quiescent(c)
    /\ received[c].seq = produced[c]

\* The add-then-delete run (after the cluster test that creates an ingress
\* and deletes it again), with the handler rendering in between.
InitCycle ==
    Constructed([Clusters |-> {"A"}, Certificates |-> PipelineCertificates,
                 IPs |-> <<"192.0.2.1">>, Debug |-> FALSE], MaxCycleEvents)

\* What comes before the scripted events: any ingress event.
CycleSetup(c) == script.pc = "idle" /\ IngressEvent(c)

\* The run creates an ingress and a create change goes to the aggregator;
\* the tables as rendered before are kept for comparison.
CycleCreate(c) ==
    /\ script.pc = "idle"
    /\ Settled(c)
    /\ templateInfo # ZeroTemplateInfo
    /\ \E obj \in IngressObjects :
          /\ IngressCallback(c, obj, "Added")
          /\ ingressEvents'[c] # <<>>
          /\ script' = [pc |-> "created", action |-> "Added", obj |-> obj,
                        before |-> templateInfo]

\* Once the create is rendered, the run deletes the ingress again.
CycleDelete(c) ==
    /\ script.pc = "created"
    /\ Settled(c)
    /\ IngressCallback(c, script.obj, "Deleted")
    /\ script' = [script EXCEPT !.pc = "deleted", !.action = "Deleted"]

CycleStep(c) ==
    \/ ClusterStart(c)
    \/ Connect(c)
    \/ Backoff(c)
    \/ CycleSetup(c)
    \/ CycleCreate(c)
    \/ CycleDelete(c)
    \/ IngressSend(c)
    \/ AggIngress(c)
    \/ AggClear(c)
    \/ Receive(c)

NextCycle ==
    \/ \E c \in ClusterNames : CycleStep(c)
    \/ HandlerStart
    \/ Tick

SpecCycle == InitCycle /\ [][NextCycle]_vars

\* The replay run: after some events, one event is delivered to the watcher
\* twice in a row while a reader takes the snapshots.
InitReplay ==
    Constructed([Clusters |-> {"A"}, Certificates |-> PipelineCertificates,
                 IPs |-> <<"192.0.2.1">>, Debug |-> FALSE], MaxReplayEvents)

\* The lists of a snapshot as its reader saw them.
Content(snapshot) == [Ingresses |-> snapshot.Ingresses, Backends |-> snapshot.Backends]

ReplaySetupPod(c) == script.pc = "idle" /\ PodEvent(c)

ReplaySetupIngress(c) == script.pc = "idle" /\ IngressEvent(c)

\* The first delivery of a pod event; the content of the snapshot published
\* last is kept for comparison.
ReplayFirstPod(c) ==
    /\ script.pc = "idle"
    /\ Delivered(c)
    /\ \E action \in Actions, obj \in PodObjects :
          /\ PodCallback(c, obj, action)
          /\ script' = [pc |-> "once", action |-> action, obj |-> obj,
                        before |-> Content(received[c])]

\* The first delivery of an ingress event.
ReplayFirstIngress(c) ==
    /\ script.pc = "idle"
    /\ Delivered(c)
    /\ \E action \in Actions, obj \in IngressObjects :
          /\ IngressCallback(c, obj, action)
          /\ script' = [pc |-> "once", action |-> action, obj |-> obj,
                        before |-> Content(received[c])]

\* The same event again, directly after the first: nothing else was
\* delivered and the snapshots of the first delivery have been read.
ReplaySecond(c) ==
    /\ script.pc = "once"
    /\ Delivered(c)
    /\ IF "PodIP" \in DOMAIN script.obj
       THEN PodCallback(c, script.obj, script.action)
       ELSE IngressCallback(c, script.obj, script.action)
    /\ script' = [script EXCEPT !.pc = "twice", !.before = Content(received[c])]

ReplayStep(c) ==
    \/ ClusterStart(c)
    \/ Connect(c)
    \/ Backoff(c)
    \/ ReplaySetupPod(c)
    \/ ReplaySetupIngress(c)
    \/ ReplayFirstPod(c)
    \/ ReplayFirstIngress(c)
    \/ ReplaySecond(c)
    \/ PodSend(c)
    \/ IngressSend(c)
    \/ AggIngress(c)
    \/ AggBackend(c)
    \/ AggClear(c)
    \/ Receive(c)

NextReplay ==
    \/ \E c \in ClusterNames : ReplayStep(c)
    \/ HandlerStart

SpecReplay == InitReplay /\ [][NextReplay]_vars

\* A watcher through its life: started, waited for, connecting with attempts
\* that fail or succeed, fed ingress events, and stopped at any point.
InitLifecycle ==
    Constructed([Clusters |-> {"A"}, Certificates |-> PipelineCertificates,
                 IPs |-> <<"192.0.2.1">>, Debug |-> FALSE], MaxLifecycleEvents)

\* The steps the watcher's goroutines, a caller inside Stop() and the reader
\* of the snapshots take on their own once they can.
LifecycleRuns(c) ==
    \/ Connect(c)
    \/ Backoff(c)
    \/ WatchReturn(c)
    \/ CheckExit(c)
    \/ Shutdown(c)
    \/ StopSend(c)
    \/ InformersExit(c)
    \/ AggIngress(c)
    \/ AggClear(c)
    \/ AggStop(c)
    \/ Receive(c)
    \/ WaitReturn(c)

LifecycleStep(c) ==
    \/ ClusterStart(c)
    \/ WaitCall(c)
    \/ StopCall(c)
    \/ IngressEvent(c)
    \/ LifecycleRuns(c)

NextLifecycle ==
    \/ \E c \in ClusterNames : LifecycleStep(c)
    \/ HandlerStart

\* Every goroutine that can take a step takes one: a sleep ends, a send or
\* receive that can complete completes, a connection attempt is made (and
\* fails or succeeds).
SpecLifecycle ==
    /\ InitLifecycle
    /\ [][NextLifecycle]_vars
    /\ \A c \in ClusterNames :
          /\ WF_vars(Connect(c))
          /\ WF_vars(Backoff(c))
          /\ WF_vars(WatchReturn(c))
          /\ WF_vars(CheckExit(c))
          /\ WF_vars(Shutdown(c))
          /\ WF_vars(StopSend(c))
          /\ WF_vars(InformersExit(c))
          /\ WF_vars(AggIngress(c))
          /\ WF_vars(AggClear(c))
          /\ WF_vars(AggStop(c))
          /\ WF_vars(Receive(c))
          /\ WF_vars(WaitReturn(c))
    /\ WF_vars(HandlerStart)

\* k8router.Run as far as services go: the watcher is started, the balancer
\* is started, service events arrive, and Stop() is called on the balancer.
InitBalancer ==
    Constructed([Clusters |-> {"A"}, Certificates |-> PipelineCertificates,
                 IPs |-> <<"192.0.2.1", "192.0.2.2">>, Debug |-> FALSE], MaxBalancerEvents)

BalancerStep(c) ==
    \/ ClusterStart(c)
    \/ Connect(c)
    \/ Backoff(c)
    \/ ServiceEvent(c)
    \/ BalancerReceive(c)

NextBalancer ==
    \/ \E c \in ClusterNames : BalancerStep(c)
    \/ BalancerStart
    \/ BalancerStopCall
    \/ BalancerStop

SpecBalancer == InitBalancer /\ [][NextBalancer]_vars

\* A Start() that returns only when the work loop it runs has ended.
StartRunsLoopInline(c) == loopPc[c] = "done"

\* Whether Run can go on after cluster.Start(): Start() hands eventLoop to a
\* goroutine of its own and returns.
StartReturns(c) == loopPc[c] # "off"

\* k8router.Run with two clusters: every cluster is initialized and started,
\* then the handler is.  Each cluster connects or keeps failing on its own.
InitRun ==
    Constructed([Clusters |-> {"A", "B"}, Certificates |-> PipelineCertificates,
                 IPs |-> <<"192.0.2.1">>, Debug |-> FALSE], MaxRunEvents)

\* handler.Start() comes after the loop over cfg.Clusters.
RunHandlerStart ==
    /\ \A c \in config.Clusters : StartReturns(c)
    /\ HandlerStart

RunStep(c) ==
    \/ ClusterStart(c)
    \/ Connect(c)
    \/ Backoff(c)
    \/ IngressEvent(c)
    \/ AggIngress(c)
    \/ AggClear(c)
    \/ Receive(c)

NextRun ==
    \/ \E c \in ClusterNames : RunStep(c)
    \/ RunHandlerStart
    \/ Tick

\* Run goes on to the next statement, the goroutines that can step do, a
\* sender waiting on the shared channel is served in its turn, and the
\* ticker fires every second.  Nothing is assumed of the connection attempts
\* but that they are made.
SpecRun ==
    /\ InitRun
    /\ [][NextRun]_vars
    /\ \A c \in ClusterNames :
          /\ WF_vars(ClusterStart(c))
          /\ WF_vars(Connect(c))
          /\ WF_vars(Backoff(c))
          /\ WF_vars(AggIngress(c))
          /\ WF_vars(AggClear(c))
          /\ WF_vars(Receive(c))
    /\ WF_vars(RunHandlerStart)
    /\ WF_numChanges(Rendering)

\* The configuration tests: FromFile on one file.
InitConfig ==
    Constructed([Clusters |-> {}, Certificates |-> <<>>, IPs |-> <<>>, Debug |-> FALSE], 0)

NextConfig == FromFileCall

SpecConfig == InitConfig /\ [][NextConfig]_vars

\* The ingresses of IngressObjects, and d/w after its rule was given
\* another host.
RevisedIngressObjects ==
    IngressObjects \union {[Namespace |-> "d", Name |-> "w", Hosts |-> <<"c.net">>]}

\* The informers' callbacks one by one, each noted with the event it was
\* given and with what was remembered when it was called, while the aggregator and the handler take what they send.
InitCallbacks ==
    Constructed([Clusters |-> {"A"}, Certificates |-> PipelineCertificates,
                 IPs |-> <<"192.0.2.1">>, Debug |-> FALSE], MaxCallbackEvents)

\* The pod informer calls handlePodEvents.
NotedPodEvent(c) ==
    \E action \in Actions, obj \in PodObjects :
        /\ PodCallback(c, obj, action)
        /\ script' = [pc |-> "called", action |-> action, obj |-> obj,
                      before |-> knownPods[c]]

\* The ingress informer calls handleIngressEvent.
NotedIngressEvent(c) ==
    \E action \in Actions, obj \in RevisedIngressObjects :
        /\ IngressCallback(c, obj, action)
        /\ script' = [pc |-> "called", action |-> action, obj |-> obj,
                      before |-> knownIngresses[c]]

CallbackStep(c) ==
    \/ ClusterStart(c)
    \/ Connect(c)
    \/ Backoff(c)
    \/ NotedPodEvent(c)
    \/ PodSend(c)
    \/ NotedIngressEvent(c)
    \/ IngressSend(c)
    \/ AggIngress(c)
    \/ AggBackend(c)
    \/ AggClear(c)
    \/ Receive(c)

NextCallbacks ==
    \/ \E c \in ClusterNames : CallbackStep(c)
    \/ HandlerStart

SpecCallbacks == InitCallbacks /\ [][NextCallbacks]_vars

\* A watcher whose subscriptions end while it runs: events are delivered and
\* their snapshots read, then the watches end and the informers subscribe
\* again.  What the aggregator had put up when the watches ended is noted.
InitResubscribe ==
    Constructed([Clusters |-> {"A"}, Certificates |-> PipelineCertificates,
                 IPs |-> <<"192.0.2.1">>, Debug |-> FALSE], MaxResubscribeEvents)

NotedSubscriptionEnd(c) ==
    /\ Delivered(c)
    /\ SubscriptionEnds(c)
    /\ script' = [pc |-> "ended", action |-> "",
                  obj |-> [Ingresses |-> SliceView(ingArrays[c], currentClusterState[c].Ingresses),
                           Backends |-> SliceView(beArrays[c], currentClusterState[c].Backends)],
                  before |-> produced[c]]

ResubscribeStep(c) ==
    \/ ClusterStart(c)
    \/ Connect(c)
    \/ Backoff(c)
    \/ IngressEvent(c)
    \/ PodEvent(c)
    \/ AggIngress(c)
    \/ AggBackend(c)
    \/ AggClear(c)
    \/ Receive(c)
    \/ NotedSubscriptionEnd(c)
    \/ Resubscribe(c)

NextResubscribe ==
    \/ \E c \in ClusterNames : ResubscribeStep(c)
    \/ HandlerStart

SpecResubscribe == InitResubscribe /\ [][NextResubscribe]_vars

\* config.Cluster.IngressAppName (the default).
IngressAppName == "ingress-nginx"

\* Pods as the pod informer lists them, with the value of their label
\* app.kubernetes.io/name ("" for a pod that has no such label).  The informer
\* comes from factory.Core().V1().Pods() and covers the pods of every
\* namespace and every label.
LabelledPodObjects ==
    {[Namespace |-> IngressNamespace, Name |-> "p1", PodIP |-> "10.0.0.1",
      AppName |-> IngressAppName],
     [Namespace |-> IngressNamespace, Name |-> "p4", PodIP |-> "10.0.0.2",
      AppName |-> "registry"],
     [Namespace |-> IngressNamespace, Name |-> "p5", PodIP |-> "10.0.0.2",
      AppName |-> ""],
     [Namespace |-> "kube-system",    Name |-> "p3", PodIP |-> "10.0.0.1",
      AppName |-> IngressAppName]}

\* The pod informer calls handlePodEvents with a pod of any label.
LabelledPodEvent(c) ==
    \E action \in Actions, obj \in LabelledPodObjects :
        /\ PodCallback(c, obj, action)
        /\ script' = [pc |-> "called", action |-> action, obj |-> obj,
                      before |-> knownPods[c]]

InitLabels ==
    Constructed([Clusters |-> {"A"}, Certificates |-> PipelineCertificates,
                 IPs |-> <<"192.0.2.1">>, Debug |-> FALSE], MaxLabelEvents)

LabelStep(c) ==
    \/ ClusterStart(c)
    \/ Connect(c)
    \/ Backoff(c)
    \/ LabelledPodEvent(c)
    \/ PodSend(c)
    \/ AggBackend(c)
    \/ AggClear(c)
    \/ Receive(c)

NextLabels ==
    \/ \E c \in ClusterNames : LabelStep(c)
    \/ HandlerStart

SpecLabels == InitLabels /\ [][NextLabels]_vars

\* The pod informer calls handlePodEvents with whatever it holds: a pod, a
\* pod without a usable IP, or (for Deleted) a tombstone that is not a pod.
NotedAnyPodEvent(c) ==
    \E action \in Actions :
    \E obj \in PodObjects \cup (IF action = "Deleted" THEN {Tombstone} ELSE {}) :
        /\ PodCallback(c, obj, action)
        /\ script' = [pc |-> "called", action |-> action, obj |-> obj,
                      before |-> knownPods[c]]

InitMalformed ==
    Constructed([Clusters |-> {"A"}, Certificates |-> PipelineCertificates,
                 IPs |-> <<"192.0.2.1">>, Debug |-> FALSE], MaxMalformedEvents)

MalformedStep(c) ==
    \/ ClusterStart(c)
    \/ Connect(c)
    \/ Backoff(c)
    \/ NotedAnyPodEvent(c)
    \/ PodSend(c)
    \/ AggBackend(c)
    \/ AggClear(c)
    \/ Receive(c)

NextMalformed ==
    \/ \E c \in ClusterNames : MalformedStep(c)
    \/ HandlerStart

SpecMalformed == InitMalformed /\ [][NextMalformed]_vars

\* The re-delivery run: after a clear that followed a failed connect() has
\* emptied the aggregator's lists while the handlers remember objects, the
\* subscriptions end, are installed anew, and the informers report Added for
\* every remembered object with the value it had.  script.obj collects the
\* keys reported again.
InitRedeliver ==
    Constructed([Clusters |-> {"A"}, Certificates |-> PipelineCertificates,
                 IPs |-> <<"192.0.2.1">>, Debug |-> FALSE], MaxRedeliverEvents)

RedeliverSetupPod(c) == script.pc = "idle" /\ PodEvent(c)

RedeliverSetupIngress(c) == script.pc = "idle" /\ IngressEvent(c)

\* The aggregator's lists are empty though objects are remembered: a clear
\* was taken after their events.
ClearedBehindHandlers(c) ==
    /\ Delivered(c)
    /\ SliceView(ingArrays[c], currentClusterState[c].Ingresses) = <<>>
    /\ SliceView(beArrays[c], currentClusterState[c].Backends) = <<>>
    /\ DOMAIN knownPods[c] \cup DOMAIN knownIngresses[c] # {}

RedeliverEnd(c) ==
    /\ script.pc = "idle"
    /\ ClearedBehindHandlers(c)
    /\ SubscriptionEnds(c)
    /\ script' = [pc |-> "ended", action |-> "Added", obj |-> {}, before |-> <<>>]

RedeliverPod(c) ==
    /\ script.pc = "ended"
    /\ \E obj \in PodObjects :
          /\ PodKey(obj) \in DOMAIN knownPods[c] \ script.obj
          /\ ParseIP(obj.PodIP) = knownPods[c][PodKey(obj)].IP
          /\ PodCallback(c, obj, "Added")
          /\ script' = [script EXCEPT !.obj = @ \cup {PodKey(obj)}]

RedeliverIngress(c) ==
    /\ script.pc = "ended"
    /\ \E obj \in IngressObjects :
          LET name == obj.Namespace \o "-" \o obj.Name
          IN  /\ name \in DOMAIN knownIngresses[c] \ script.obj
              /\ obj.Hosts = knownIngresses[c][name].Hosts
              /\ IngressCallback(c, obj, "Added")
              /\ script' = [script EXCEPT !.obj = @ \cup {name}]

RedeliverStep(c) ==
    \/ ClusterStart(c)
    \/ Connect(c)
    \/ Backoff(c)
    \/ RedeliverSetupPod(c)
    \/ RedeliverSetupIngress(c)
    \/ RedeliverEnd(c)
    \/ Resubscribe(c)
    \/ RedeliverPod(c)
    \/ RedeliverIngress(c)
    \/ AggIngress(c)
    \/ AggBackend(c)
    \/ AggClear(c)
    \/ Receive(c)

NextRedeliver ==
    \/ \E c \in ClusterNames : RedeliverStep(c)
    \/ HandlerStart

SpecRedeliver == InitRedeliver /\ [][NextRedeliver]_vars

\* Pods as the informer's delete handler may report them: the pods of the
\* other runs, and p1 as it is once its status has no podIP any more.
DeletablePodObjects ==
    PodObjects \cup {[Namespace |-> IngressNamespace, Name |-> "p1", PodIP |-> ""]}

\* The pod informer calls handlePodEvents; the backends the aggregator lists
\* at that moment, the number of snapshots it has put up, and whether
\* anything of the cluster was still to be processed, are noted.
NotedPodDelivery(c) ==
    \E action \in Actions, obj \in DeletablePodObjects :
        /\ PodCallback(c, obj, action)
        /\ script' = [pc |-> "called", action |-> action, obj |-> obj,
                      before |-> [listed |-> SliceView(beArrays[c],
                                                       currentClusterState[c].Backends),
                                  seq    |-> produced[c],
                                  quiet  |-> Quiescent(c)]]

InitDelete ==
    Constructed([Clusters |-> {"A"}, Certificates |-> PipelineCertificates,
                 IPs |-> <<"192.0.2.1">>, Debug |-> FALSE], MaxDeleteEvents)

DeleteStep(c) ==
    \/ ClusterStart(c)
    \/ Connect(c)
    \/ Backoff(c)
    \/ NotedPodDelivery(c)
    \/ PodSend(c)
    \/ IngressEvent(c)
    \/ IngressSend(c)
    \/ AggIngress(c)
    \/ AggBackend(c)
    \/ AggClear(c)
    \/ Receive(c)

NextDelete ==
    \/ \E c \in ClusterNames : DeleteStep(c)
    \/ HandlerStart

SpecDelete == InitDelete /\ [][NextDelete]_vars

\* Cluster names as Cluster.UnmarshalYAML accepts them: any non-empty
\* string, one with a '-' among them.
DashedClusterNames == {"a", "b", "a-b"}

\* A Handler filled with snapshots of clusters of those names, on which
\* rebuildConfig is called.
InitKeys ==
    /\ ConstructedAround([Clusters |-> {}, Certificates |-> PipelineCertificates,
                          IPs |-> <<"127.0.0.1">>, Debug |-> FALSE], 0)
    /\ \E names \in (SUBSET DashedClusterNames) \ {{}} :
       \E ing \in [DashedClusterNames -> DeriveIngressLists],
          be \in [DashedClusterNames -> DeriveBackendLists] :
          /\ \A c \in DashedClusterNames \ names : ing[c] = <<>> /\ be[c] = <<>>
          /\ clusterState = [c \in names |-> [Name      |-> c,
                                              Ingresses |-> Literal(ing[c]),
                                              Backends  |-> Literal(be[c])]]
          /\ ingArrays = [c \in DashedClusterNames |-> LiteralArrays(ing[c])]
          /\ beArrays = [c \in DashedClusterNames |-> LiteralArrays(be[c])]

NextKeys == RebuildCall

SpecKeys == InitKeys /\ [][NextKeys]_vars

\* A watcher that is stopped while its informers still report pods and
\* ingresses; every call of a handler is noted.
InitClose ==
    Constructed([Clusters |-> {"A"}, Certificates |-> PipelineCertificates,
                 IPs |-> <<"192.0.2.1">>, Debug |-> FALSE], MaxCloseEvents)

CloseStep(c) ==
    \/ ClusterStart(c)
    \/ Connect(c)
    \/ Backoff(c)
    \/ NotedPodEvent(c)
    \/ NotedIngressEvent(c)
    \/ AggIngress(c)
    \/ AggBackend(c)
    \/ AggClear(c)
    \/ Receive(c)
    \/ StopStep(c)

NextClose ==
    \/ \E c \in ClusterNames : CloseStep(c)
    \/ HandlerStart

SpecClose == InitClose /\ [][NextClose]_vars

\* The services the programmer was told to create and has not been told to
\* delete since, as a run of the programmer notes them.
ActiveServices == IF script.pc = "ruled" THEN script.obj ELSE {}

\* The programmer takes a change; the services created and not deleted are
\* noted.
NotedBalancerReceive(c) ==
    /\ BalancerRule(c)
    /\ LET event == Head(serviceOut[c])
           rest  == {x \in ActiveServices :
                        ~(/\ x.Name = event.Service.Name
                          /\ x.Port = event.Service.Port
                          /\ x.Protocol = event.Service.Protocol)}
       IN  script' = [pc |-> "ruled", action |-> "", before |-> <<>>,
                      obj |-> IF event.Created THEN rest \cup {event.Service} ELSE rest]

\* The programmer and one watcher whose service informer reports services,
\* two of which use the same protocol and port.
InitShare ==
    Constructed([Clusters |-> {"A"}, Certificates |-> PipelineCertificates,
                 IPs |-> <<"192.0.2.1", "192.0.2.2">>, Debug |-> FALSE], MaxShareEvents)

ShareStep(c) ==
    \/ ClusterStart(c)
    \/ Connect(c)
    \/ Backoff(c)
    \/ ServiceEvent(c)
    \/ NotedBalancerReceive(c)

NextShare ==
    \/ \E c \in ClusterNames : ShareStep(c)
    \/ BalancerStart

SpecShare == InitShare /\ [][NextShare]_vars

(***************************************************************************)
(* Properties                                                              *)
(***************************************************************************)

Started == {c \in ClusterNames : loopPc[c] # "off"}

\* A sequence lists exactly the elements of a set, each once.
ListsExactly(seq, set) == Range(seq) = set /\ Len(seq) = Cardinality(set)

\* C1: after Stop() has returned, the aggregator of that cluster starts no
\* further send of a snapshot on the shared channel.
C1_NoSnapshotAfterStop ==
    [][\A c \in ClusterNames :
          stopPc[c] = "returned" => ~(aggPc[c] = "select" /\ aggPc'[c] = "send")]_vars

C5_InOrderAndLatestStored ==
    /\ [](\A c \in DOMAIN clusterState :
             /\ clusterState[c] = received[c].hdr
             /\ received[c].seq \in {produced[c], produced[c] - 1})
    /\ [][\A c \in ClusterNames :
             received'[c] # received[c] =>
                 /\ received'[c].seq = received[c].seq + 1
                 /\ received'[c].seq = produced[c]]_vars

C5_Witness ==
    /\ received["A"].seq = 3
    /\ clusterState["A"] = received["A"].hdr
    /\ Len(received["A"].Ingresses) = 2

\* C6: the lists of a stored snapshot read as they did when the snapshot was
\* received, whatever the aggregator has done since.
C6_StoredSnapshotKeepsItsValue ==
    \A c \in DOMAIN clusterState :
        /\ StoredSnapshots[c].Ingresses = received[c].Ingresses
        /\ StoredSnapshots[c].Backends = received[c].Backends

\* C7: no step writes or reloads more than once, whatever the number of
\* snapshots that arrived, and a step that finds no pending change (a tick
\* among them) neither writes nor reloads.
C7_AtMostOneRenderPerTick ==
    [][/\ effects'.writes <= effects.writes + 1
       /\ effects'.reloads <= effects.reloads + 1
       /\ numChanges = 0 =>
             /\ effects'.writes = effects.writes
             /\ effects'.reloads = effects.reloads
             /\ dropin' = dropin]_vars

\* A render covered two or more snapshots, and the latest tick found nothing
\* to do.
C7_Witness ==
    /\ effects.batch >= 2 /\ effects.writes = 1
    /\ effects.lastTick = "idle"

\* The drop-in file holds a rendering of all stored snapshots.
UpToDate == numChanges = 0 /\ templateInfo \in RebuildOutcomes /\ dropin = templateInfo

SortedNames(set) == SortStrings(CHOOSE o \in Orders(set) : TRUE)

Rebuilt == templateInfo # ZeroTemplateInfo

\* C9: after a recomputation, every host of a stored snapshot maps to the
\* key made of the sorted names of the clusters listing it, each once, and
\* the key maps to those clusters' endpoints, in that order.
C9_HostMapsToItsClusters ==
    Rebuilt =>
        \A h \in AllHosts(StoredSnapshots) :
            LET snaps == StoredSnapshots
                names == SortedNames({n \in DOMAIN snaps :
                                         h \in Range(HostsOfCluster(snaps[n]))})
                key   == Join(names, "-")
            IN  /\ h \in DOMAIN templateInfo.HostToBackend
                /\ templateInfo.HostToBackend[h] = key
                /\ key \in DOMAIN templateInfo.BackendCombinationList
                /\ templateInfo.BackendCombinationList[key] =
                      Flatten([i \in 1..Len(names) |-> snaps[names[i]].Backends])

\* C10: after a recomputation, every key a host refers to has at least one
\* endpoint.
C10_EveryHostHasAnEndpoint ==
    Rebuilt =>
        \A h \in DOMAIN templateInfo.HostToBackend :
            /\ templateInfo.HostToBackend[h] \in DOMAIN templateInfo.BackendCombinationList
            /\ templateInfo.BackendCombinationList[templateInfo.HostToBackend[h]] # <<>>

\* C11: a second recomputation over the same stored snapshots and the same
\* configuration stores the same derived tables as the first, down to the
\* order of every list, whatever order the maps are iterated in.
C11_RecomputationIsDeterministic ==
    [][(Rebuilt /\ StoredSnapshots' = StoredSnapshots /\ config' = config) =>
           templateInfo' = templateInfo]_vars

\* The configured certificates that have an SNI entry, in configuration order.
CertificatesWithEntry ==
    SelectSeq(config.Certificates, LAMBDA cert : cert.Name \in DOMAIN templateInfo.SniList)

EndsWith(h, suf) ==
    /\ Len(suf) <= Len(h)
    /\ \A i \in 1..Len(suf) : CharAt(h, Len(h) - Len(suf) + i) = CharAt(suf, i)

\* A configured pattern matches a host: it is the host, or it is a wildcard
\* pattern and the host ends with what follows the "*".
PatternMatches(pattern, h) ==
    \/ pattern = h
    \/ ContainsStar(pattern) /\ EndsWith(h, TrimStar(pattern))

\* The certificate called `name` has a pattern that matches h.
Covers(name, h) ==
    \E cert \in Range(config.Certificates) :
        /\ cert.Name = name
        /\ \E i \in 1..Len(cert.Domains) : PatternMatches(cert.Domains[i], h)

\* C15: after a recomputation every host in an SNI entry's host list, and
\* every host of host->certificate, is a host of the routing table and is
\* matched by a pattern of the certificate concerned.
C15_ListedHostsAreCovered ==
    Rebuilt =>
        /\ \A n \in DOMAIN templateInfo.SniList :
               \A i \in 1..Len(templateInfo.SniList[n].Domains) :
                   LET h == templateInfo.SniList[n].Domains[i]
                   IN  h \in DOMAIN templateInfo.HostToBackend /\ Covers(n, h)
        /\ \A h2c \in HostToCertOutcomes :
               \A h \in DOMAIN h2c :
                   h \in DOMAIN templateInfo.HostToBackend /\ Covers(h2c[h], h)

\* Two hosts are served; one wildcard certificate lists both and another
\* wildcard certificate, which matches neither, lists none.
C15_Witness ==
    /\ Rebuilt
    /\ {"dummycert", "zcert"} \subseteq DOMAIN templateInfo.SniList
    /\ Len(templateInfo.SniList["dummycert"].Domains) = 2
    /\ templateInfo.SniList["zcert"].Domains = <<>>

\* The configured certificates with a wildcard pattern, in configuration order.
WildcardCertificates ==
    SelectSeq(config.Certificates,
              LAMBDA cert : \E i \in 1..Len(cert.Domains) : ContainsStar(cert.Domains[i]))

\* C16: after a recomputation the default wildcard certificate is empty if
\* no configured certificate has a wildcard pattern, and otherwise names the
\* last configured certificate that has one, whether or not it matches a host.
C16_LastWildcardIsDefault ==
    Rebuilt =>
        templateInfo.DefaultWildcardCert =
            (IF WildcardCertificates = <<>> THEN ""
             ELSE WildcardCertificates[Len(WildcardCertificates)].Name)

\* Two wildcard certificates are configured; the last one matches no host
\* and is the default, ahead of the one that matches the served hosts.
C16_Witness ==
    /\ Rebuilt
    /\ Len(WildcardCertificates) = 2
    /\ templateInfo.DefaultWildcardCert = "zcert"
    /\ templateInfo.SniList["zcert"].Domains = <<>>
    /\ templateInfo.SniList["dummycert"].Domains # <<>>

\* C19: once Handler.Stop() has returned, no step recomputes the tables,
\* writes the file, reloads or signals completion, pending changes or not;
\* and a Stop() that is waiting is taken whenever the loop is in its select.
C19_NothingAfterHandlerStop ==
    /\ [][handlerStopPc = "returned" =>
              /\ effects'.writes = effects.writes
              /\ effects'.reloads = effects.reloads
              /\ effects'.signals = effects.signals
              /\ templateInfo' = templateInfo
              /\ dropin' = dropin]_vars
    /\ []((handlerStopPc = "sending" /\ handlerPc = "select" /\ ~crashed) =>
              ENABLED HandlerStop)

\* Stop() has returned while a received snapshot was not rendered yet.
C19_Witness ==
    /\ handlerStopPc = "returned" /\ handlerPc = "done"
    /\ numChanges > 0 /\ "A" \in DOMAIN clusterState

\* C12: an ingress create followed by a delete of the same name, each
\* rendered once its snapshot is stored, leaves the derived tables exactly
\* as they were rendered before the create.
C12_AddThenDeleteRestoresTables ==
    \A c \in config.Clusters :
        (script.pc = "deleted" /\ Settled(c)) => templateInfo = script.before

\* C13: when an event is delivered to a watcher a second time directly
\* after the first, at most one of the snapshots published from then on
\* differs in content from the snapshot published before it; that is, every
\* snapshot that differs from its predecessor follows one that still has the
\* content published before the second delivery.
C13_ReplayChangesAtMostOnce ==
    [][\A c \in ClusterNames :
          (script.pc = "twice" /\ Content(received'[c]) # Content(received[c])) =>
              Content(received[c]) = script.before]_vars

\* C13, but for pod Modified events (for which handlePodEvents sends a delete
\* and a create each time): when an Added or Deleted event, or a Modified
\* ingress event, is delivered a second time directly after the first, at
\* most one of the snapshots published from then on differs in content from
\* the snapshot published before it.
C13_ReplayChangesAtMostOnceUnlessPodModified ==
    [][\A c \in ClusterNames :
          (/\ script.pc = "twice"
           /\ ~(script.action = "Modified" /\ "PodIP" \in DOMAIN script.obj)
           /\ Content(received'[c]) # Content(received[c])) =>
              Content(received[c]) = script.before]_vars

\* A pod was added, then its Deleted event was delivered twice: the first
\* delivery emptied the list, the second published an unchanged snapshot,
\* and all three snapshots have been read.
C13_Witness ==
    /\ script.pc = "twice" /\ script.action = "Deleted" /\ "PodIP" \in DOMAIN script.obj
    /\ firstTry["A"] /\ Delivered("A")
    /\ produced["A"] = 3
    /\ script.before = [Ingresses |-> <<>>, Backends |-> <<>>]
    /\ Content(received["A"]) = script.before

\* C17: once Stop() has been called, eventLoop eventually leaves its loop
\* and closes the channels, wherever the loop stood at the call: in watch()
\* or in the sleep after a failed connection attempt.
C17_StopEndsWorkLoop ==
    \A c \in ClusterNames : (stopPc[c] # "idle") ~> (loopPc[c] = "done" /\ closed[c])

\* C18: Wait() has returned only if the watcher has connected and installed
\* its informers; a value is put on readinessChannel only by the step that
\* does so for the first time, hence once, and never by a failed attempt.
C18_WaitReleasedByFirstSubscription ==
    /\ [](\A c \in ClusterNames : waitPc[c] = "returned" => ~isFirstConnectionAttempt[c])
    /\ [][\A c \in ClusterNames :
            /\ readinessChannel'[c] > readinessChannel[c] =>
                  /\ readinessChannel'[c] = 1
                  /\ isFirstConnectionAttempt[c] /\ ~isFirstConnectionAttempt'[c]
                  /\ loopPc'[c] = "watch" /\ informers'[c] = "running"
            /\ isFirstConnectionAttempt'[c] => isFirstConnectionAttempt[c]
            /\ (waitPc[c] = "waiting" /\ waitPc'[c] = "returned"
                   /\ loopPc[c] \in {"connect", "sleep"} /\ loopPc'[c] = "sleep") => FALSE]_vars

\* Wait() was called before the watcher connected, a first attempt failed, a
\* later one succeeded and released the call by its one readiness value.
C18_Witness ==
    /\ waitPc["A"] = "returned" /\ ~firstTry["A"]
    /\ loopPc["A"] = "watch" /\ ~closed["A"] /\ readinessChannel["A"] = 0

\* C20: after LoadBalancer.Stop() has returned no createRule or deleteRule
\* is executed any more: the call count and the installed services stay.
C20_NoRuleAfterBalancerStop ==
    [][lbStopPc = "returned" =>
          /\ rulesRun' = rulesRun
          /\ virtualServers' = virtualServers]_vars

C22_ConfigurationIsComplete ==
    loaded.pc = "returned" =>
        /\ loaded.nil <=> loaded.err # ""
        /\ loaded.nil => loaded.cfg = NilConfig
        /\ ~loaded.nil =>
              /\ Len(loaded.cfg.Clusters.elems) >= 1
              /\ Len(loaded.cfg.Certificates.elems) >= 1
              /\ Len(loaded.cfg.IPs.elems) >= 1
              /\ \A i \in 1..Len(loaded.cfg.Clusters.elems) :
                    /\ loaded.cfg.Clusters.elems[i].Name # ""
                    /\ loaded.cfg.Clusters.elems[i].Kubeconfig # ""
              /\ \A i \in 1..Len(loaded.cfg.Certificates.elems) :
                    /\ loaded.cfg.Certificates.elems[i].Name # ""
                    /\ loaded.cfg.Certificates.elems[i].Cert # ""
                    /\ Len(loaded.cfg.Certificates.elems[i].Domains) >= 1

\* A callback of cluster c was given an event of this kind in this step.
Called(c, action, field) ==
    /\ budget'[c] = budget[c] - 1
    /\ script'.pc = "called" /\ script'.action = action
    /\ field \in DOMAIN script'.obj

\* The changes handleIngressEvent has sent, or stands to send, in this step.
IngressChangesAre(c, changes) ==
    ingressEvents'[c] \o ingressOut'[c] = ingressEvents[c] \o ingressOut[c] \o changes

\* The normalised value of the ingress a callback was given.
NotedIngress == [Name |-> script'.obj.Namespace \o "-" \o script'.obj.Name,
                 Hosts |-> script'.obj.Hosts]

\* The value is remembered under its name as it is.
IngressRemembered(c, o) ==
    o.Name \in DOMAIN knownIngresses[c] /\ knownIngresses[c][o.Name] = o

\* C23: a Modified ingress event for a name under which a value is
\* remembered, whose value is not the remembered one, sends a delete change and then a create change with the new value
\* and remembers the new value; one whose value is remembered sends nothing.
C23_ModifiedIngressReplaces ==
    [][\A c \in ClusterNames :
          (Called(c, "Modified", "Hosts") /\ NotedIngress.Name \in DOMAIN knownIngresses[c]) =>
             IF IngressRemembered(c, NotedIngress)
             THEN IngressChangesAre(c, <<>>)
             ELSE /\ \E del \in {[Ingress |-> [Name |-> NotedIngress.Name, Hosts |-> h],
                                   Created |-> FALSE] : h \in {<<>>, NotedIngress.Hosts}} :
                        IngressChangesAre(c, <<del, [Ingress |-> NotedIngress, Created |-> TRUE]>>)
                  /\ NotedIngress.Name \in DOMAIN knownIngresses'[c]
                  /\ knownIngresses'[c][NotedIngress.Name] = NotedIngress]_vars

\* C24: an Added ingress event sends exactly one create change with its
\* value if that value is not the one remembered under its name (or none
\* is), and nothing if it is; afterwards its value is the remembered one.
C24_AddedIngressUpserts ==
    [][\A c \in ClusterNames :
          Called(c, "Added", "Hosts") =>
             /\ IF IngressRemembered(c, NotedIngress)
                THEN IngressChangesAre(c, <<>>)
                ELSE IngressChangesAre(c, <<[Ingress |-> NotedIngress, Created |-> TRUE]>>)
             /\ NotedIngress.Name \in DOMAIN knownIngresses'[c]
             /\ knownIngresses'[c][NotedIngress.Name] = NotedIngress]_vars

\* d/w was Added with host a.org, its create change went into a snapshot,
\* and then d/w was Added again after its host had become c.net: a second
\* create change is queued and c.net is what is remembered.
C24_Witness ==
    /\ script.pc = "called" /\ script.action = "Added"
    /\ script.obj = [Namespace |-> "d", Name |-> "w", Hosts |-> <<"c.net">>]
    /\ script.before = ("d-w" :> [Name |-> "d-w", Hosts |-> <<"a.org">>])
    /\ produced["A"] = 1
    /\ ingressEvents["A"] = <<[Ingress |-> [Name |-> "d-w", Hosts |-> <<"c.net">>],
                               Created |-> TRUE]>>
    /\ knownIngresses["A"]["d-w"].Hosts = <<"c.net">>

\* The changes handlePodEvents has sent, or stands to send, in this step.
BackendChangesAre(c, changes) ==
    backendEvents'[c] \o podOut'[c] = backendEvents[c] \o podOut[c] \o changes

\* The endpoint of the pod a callback was given, and the key it is
\* remembered under.
NotedBackend == [IP |-> ParseIP(script'.obj.PodIP), Name |-> script'.obj.Name]

NotedPodKey == script'.obj.Namespace \o "-" \o script'.obj.Name

\* The pod a callback was given is in the ingress namespace and its IP parses.
NotedPodCounts ==
    script'.obj.Namespace = IngressNamespace /\ ParseIP(script'.obj.PodIP) # NilIP

\* C25: for a pod of the configured namespace with a parsable IP, Added
\* sends one create change unless the endpoint is the remembered one,
\* Modified sends a delete change and then a create change whatever is
\* remembered, and Deleted sends one delete change and forgets the endpoint.
C25_PodEventsEmitChanges ==
    [][\A c \in ClusterNames :
          /\ (Called(c, "Added", "PodIP") /\ NotedPodCounts) =>
                IF NotedPodKey \in DOMAIN knownPods[c] /\ knownPods[c][NotedPodKey] = NotedBackend
                THEN BackendChangesAre(c, <<>>)
                ELSE BackendChangesAre(c, <<[Backend |-> NotedBackend, Created |-> TRUE]>>)
          /\ (Called(c, "Modified", "PodIP") /\ NotedPodCounts) =>
                BackendChangesAre(c, <<[Backend |-> NotedBackend, Created |-> FALSE],
                                       [Backend |-> NotedBackend, Created |-> TRUE]>>)
          /\ (Called(c, "Deleted", "PodIP") /\ NotedPodCounts) =>
                /\ BackendChangesAre(c, <<[Backend |-> NotedBackend, Created |-> FALSE]>>)
                /\ NotedPodKey \notin DOMAIN knownPods'[c]]_vars

\* Pod p1 was Added at 10.0.0.1 and its create change went into a snapshot;
\* then p1 was Added again at 10.0.0.2, which queued a second create change.
C25_Witness ==
    /\ script.pc = "called" /\ script.action = "Added"
    /\ script.obj = [Namespace |-> IngressNamespace, Name |-> "p1", PodIP |-> "10.0.0.2"]
    /\ script.before = ("ingress-nginx-p1" :> [IP |-> <<10, 0, 0, 1>>, Name |-> "p1"])
    /\ produced["A"] = 1
    /\ backendEvents["A"] = <<[Backend |-> [IP |-> <<10, 0, 0, 2>>, Name |-> "p1"],
                               Created |-> TRUE]>>

\* The handler takes a snapshot of cluster c in this step, and stores one of
\* that cluster with the same name, ingresses and backends already.
ReceivesWhatIsStored(c) ==
    /\ received'[c].seq # received[c].seq
    /\ c \in DOMAIN clusterState
    /\ StoredSnapshots[c] =
          [Name      |-> currentClusterState[c].Name,
           Ingresses |-> SliceView(ingArrays[c], currentClusterState[c].Ingresses),
           Backends  |-> SliceView(beArrays[c], currentClusterState[c].Backends)]

\* C26: a snapshot equivalent to the one the handler stores for its cluster
\* does not count as a change: when no change is pending and such a snapshot
\* is taken, none is pending afterwards, and the next tick renders nothing.
C26_EquivalentSnapshotIsNoChange ==
    [][\A c \in ClusterNames :
          (ReceivesWhatIsStored(c) /\ numChanges = 0) => numChanges' = 0]_vars

\* The configured certificates with a pattern that matches h, in
\* configuration order.
CertificatesCovering(h) ==
    SelectSeq(config.Certificates, LAMBDA cert : Covers(cert.Name, h))

\* C27: after a recomputation host->certificate holds, for a host that
\* several certificates match, the name of the first of them in
\* configuration order.
C27_FirstMatchingCertificateWins ==
    Rebuilt =>
        \A h2c \in HostToCertOutcomes :
            \A h \in DOMAIN h2c :
                /\ CertificatesCovering(h) # <<>>
                /\ h2c[h] = CertificatesCovering(h)[1].Name

\* A certificate has a pattern with a "*".
HasWildcardPattern(cert) == \E i \in 1..Len(cert.Domains) : ContainsStar(cert.Domains[i])

\* A certificate is in use: it has a wildcard pattern, or one of its domains
\* is a host of the routing table.
InUse(cert) ==
    \/ HasWildcardPattern(cert)
    \/ \E i \in 1..Len(cert.Domains) : cert.Domains[i] \in DOMAIN templateInfo.HostToBackend

\* C28: after a recomputation a certificate without a wildcard pattern none
\* of whose domains is a routing-table host has no SNI entry and takes no
\* port: every other certificate has an entry, also a wildcard certificate
\* that lists no host, and its port is 12345 plus the number of certificates
\* in use before it.
C28_UnusedCertificateTakesNoPort ==
    Rebuilt =>
        \A i \in 1..Len(config.Certificates) :
            LET cert == config.Certificates[i]
            IN  IF InUse(cert)
                THEN /\ cert.Name \in DOMAIN templateInfo.SniList
                     /\ templateInfo.SniList[cert.Name].LocalForwardPort =
                           FirstForwardPort +
                           Cardinality({j \in 1..(i - 1) : InUse(config.Certificates[j])})
                ELSE cert.Name \notin DOMAIN templateInfo.SniList

\* The first certificate is exact and unused and has no entry; the wildcard
\* certificate after it matches no host and has an entry with an empty host
\* list and the first port; the third certificate has the second port.
C28_Witness ==
    /\ Rebuilt
    /\ Len(config.Certificates) = 3
    /\ "netcert" \notin DOMAIN templateInfo.SniList
    /\ "zcert" \in DOMAIN templateInfo.SniList
    /\ templateInfo.SniList["zcert"].Domains = <<>>
    /\ templateInfo.SniList["zcert"].LocalForwardPort = FirstForwardPort
    /\ "dummycert2" \in DOMAIN templateInfo.SniList
    /\ templateInfo.SniList["dummycert2"].LocalForwardPort = FirstForwardPort + 1

\* C29: when the subscriptions of a running watcher that had published
\* ingresses or backends have ended without a stop request, with nothing of
\* the cluster left to process, and are installed anew, the aggregator has
\* published a snapshot since they ended and its lists are empty.
C29_EmptySnapshotBeforeResubscription ==
    [][\A c \in ClusterNames :
          (/\ informers[c] = "relisting" /\ informers'[c] = "running"
           /\ ~shallExit[c]
           /\ script.obj.Ingresses # <<>> \/ script.obj.Backends # <<>>) =>
             /\ produced[c] > script.before
             /\ SliceView(ingArrays[c], currentClusterState[c].Ingresses) = <<>>
             /\ SliceView(beArrays[c], currentClusterState[c].Backends) = <<>>]_vars

\* The names of the pods in the ingress namespace whose label
\* app.kubernetes.io/name is the configured application name.
IngressPodNames ==
    {o.Name : o \in {p \in LabelledPodObjects :
                        p.Namespace = IngressNamespace /\ p.AppName = IngressAppName}}

\* C30: only pods of the ingress namespace that carry the label
\* app.kubernetes.io/name with the configured application name produce
\* backend changes, and no other pod is a backend in a published snapshot.
C30_OnlyLabelledPodsAreBackends ==
    \A c \in ClusterNames :
        /\ \A i \in DOMAIN backendEvents[c] :
              backendEvents[c][i].Backend.Name \in IngressPodNames
        /\ \A i \in DOMAIN received[c].Backends :
              received[c].Backends[i].Name \in IngressPodNames

\* The object handed to handlePodEvents is not a pod, or its podIP is absent
\* or cannot be parsed.
Malformed(obj) ==
    \/ "tombstone" \in DOMAIN obj
    \/ ParseIP(obj.PodIP) = NilIP

\* C31: a call of handlePodEvents with a malformed object sends no backend
\* change, leaves the remembered pods alone and does not crash the program.
C31_MalformedPodEventIsDropped ==
    [][\A c \in ClusterNames :
          (/\ budget'[c] = budget[c] - 1
           /\ script'.pc = "called"
           /\ Malformed(script'.obj)) =>
             /\ ~crashed'
             /\ knownPods'[c] = knownPods[c]
             /\ backendEvents'[c] = backendEvents[c]
             /\ podOut'[c] = podOut[c]]_vars

\* C32: while the handler's loop waits in its select, between renders, the
\* process holds no open handle on the drop-in file.
C32_NoHandleOpenBetweenRenders ==
    (handlerPc = "select" /\ ~crashed) => openFiles = 0

\* No two elements of the list have the same name.
NamesAreDistinct(list) ==
    \A i, j \in DOMAIN list : list[i].Name = list[j].Name => i = j

\* C33: in every snapshot a cluster has published, the ingress names are
\* pairwise distinct and the backend names are pairwise distinct.
C33_PublishedNamesAreDistinct ==
    \A c \in ClusterNames :
        /\ NamesAreDistinct(received[c].Ingresses)
        /\ NamesAreDistinct(received[c].Backends)

\* Every remembered object of c was reported again as Added after the
\* subscriptions were installed anew.
AllRedelivered(c) ==
    /\ script.pc = "ended"
    /\ informers[c] = "running"
    /\ script.obj = DOMAIN knownPods[c] \cup DOMAIN knownIngresses[c]

\* C34: once every remembered ingress and pod of a cleared cluster has been
\* reported again as Added and nothing of the cluster is left to process,
\* the last published snapshot contains all of them.
C34_RedeliveredObjectsReappear ==
    \A c \in ClusterNames :
        (AllRedelivered(c) /\ Delivered(c)) =>
           /\ \A k \in DOMAIN knownPods[c] :
                 \E i \in DOMAIN received[c].Backends :
                    received[c].Backends[i] = knownPods[c][k]
           /\ \A k \in DOMAIN knownIngresses[c] :
                 \E i \in DOMAIN received[c].Ingresses :
                    received[c].Ingresses[i] = knownIngresses[c][k]

\* C35: when the last pod event of a cluster was a Deleted for a pod of the
\* ingress namespace whose name was among the listed backends, delivered
\* while nothing else of the cluster was pending, and a snapshot was
\* published after that event with nothing left to process, the last
\* published snapshot has no backend of that name.
C35_DeletedPodIsNoBackend ==
    \A c \in ClusterNames :
        (/\ script.pc = "called"
         /\ script.action = "Deleted"
         /\ script.obj.Namespace = IngressNamespace
         /\ script.before.quiet
         /\ NamesAreDistinct(script.before.listed)
         /\ \E i \in DOMAIN script.before.listed :
               script.before.listed[i].Name = script.obj.Name
         /\ Delivered(c)
         /\ received[c].seq > script.before.seq) =>
           \A i \in DOMAIN received[c].Backends :
              received[c].Backends[i].Name # script.obj.Name

\* The clusters whose stored snapshot lists host h.
ClustersServing(h) ==
    {n \in DOMAIN StoredSnapshots : h \in Range(HostsOfCluster(StoredSnapshots[n]))}

\* C36: after a recomputation, two hosts that map to the same combination
\* key are served by the same set of clusters.
C36_OneKeyOneClusterSet ==
    Rebuilt =>
        \A h1, h2 \in DOMAIN templateInfo.HostToBackend :
            templateInfo.HostToBackend[h1] = templateInfo.HostToBackend[h2] =>
                ClustersServing(h1) = ClustersServing(h2)

\* C37: after a recomputation, the host list of every SNI entry names each
\* host at most once.
C37_SniHostsAreListedOnce ==
    Rebuilt =>
        \A name \in DOMAIN templateInfo.SniList :
            LET hosts == templateInfo.SniList[name].Domains
            IN  \A i, j \in DOMAIN hosts : hosts[i] = hosts[j] => i = j

\* C38: a call of handlePodEvents or handleIngressEvent that is made once
\* eventLoop has closed the event channels does not send on them (a send on
\* a closed channel panics).
C38_NoSendAfterClose ==
    [][\A c \in ClusterNames :
          (/\ closed[c]
           /\ budget'[c] = budget[c] - 1
           /\ script'.pc = "called") => ~crashed']_vars

\* C39: while the handler's loop waits in its select with no change counted
\* and at least one render done, the tables of the last render are a
\* derivation of the snapshots the handler has stored.
C39_RenderedTablesMatchStoredSnapshots ==
    (handlerPc = "select" /\ ~crashed /\ numChanges = 0 /\ effects.writes > 0) =>
        templateInfo \in RebuildOutcomes

\* C40: for every service port that was created and not deleted since, the
\* virtual server of its protocol and port exists on every configured
\* address.
C40_ActiveServicesStayExposed ==
    \A service \in ActiveServices : RuleServices(service) \subseteq virtualServers

====
